---- MODULE Spec2Model ----
(***************************************************************************)
(* Model of the elixiary worker: the single-flight catalog loader          *)
(* (index/service.js), the per-identity rate limiter (rateLimit.js) and    *)
(* the layer-1 list cache (cache.js).  One process, cooperative            *)
(* scheduling: an action is the code between two suspension points.        *)
(***************************************************************************)
EXTENDS Integers, Sequences, FiniteSets, TLC

\* ------------------------------------------------------------------ bounds
NCalls == 2        \* getIndex invocations per run
MaxTime == 2       \* clock ticks (one tick is TickMs milliseconds)
NChecks == 3       \* enforceRateLimit invocations per run
RlLimit == 2       \* the largest env.RL_LIMIT modelled
RlWindowSec == 2   \* env.RL_WINDOW_SEC
MaxEntries == 2    \* createListCache({ maxEntries })
NParams == 2       \* distinct list queries per fingerprint
ListTtlSeconds == 1  \* the positive list-cache TTL modelled
MaxRows == 2       \* data rows of the sheet
MaxPos == 3        \* largest position in an array handed to intersectSortedArrays

TickMs == 1000
CacheTtlSeconds == 2     \* the positive value of env.CACHE_TTL_SECONDS modelled
Infinity == 1000000000   \* JavaScript Infinity: larger than every clock value

Calls == 1..NCalls
NoPromise == 0
NoIndex == [id |-> 0, maps |-> FALSE]
NoKvEntry == [val |-> NoIndex, expirationTtl |-> 0]

VARIABLES
    now,                  \* Date.now(), in ms
    CACHE_TTL_SECONDS,    \* env.CACHE_TTL_SECONDS
    memoryIndex,          \* service.js: let memoryIndex
    memoryIndexExpiry,    \* service.js: let memoryIndexExpiry
    memoryIndexPromise,   \* service.js: let memoryIndexPromise (id of the rebuild it wraps)
    rebuilds,             \* rebuild async functions whose upstream fetch is pending
    fetchCount,           \* upstream fetches issued so far
    kvIdx,                \* persistent store entry under 'idx_v1'
    kvIdxWrites,          \* background puts of 'idx_v1' in flight
    calls,                \* getIndex invocations: position and result
    RL_LIMIT,             \* env.RL_LIMIT
    rateLimitMemory,      \* rateLimit.js: the Map, as its entries in insertion order
    rateLimitMemorySweepIterator,   \* entries the sweep iterator has passed, or NoIterator
    rateLimitMemoryPruneScheduled,
    rateLimitMemoryWasAboveThreshold,
    rateLimitMemoryLastPruneAt,
    rlEntries,            \* the entry objects, by the check that created them
    rlWrites,             \* rate-limit sync puts in flight
    kvRl,                 \* persistent store values under 'rl:<ip>:<bucket>'
    checks,               \* enforceRateLimit invocations: position and result
    cleanups,             \* the runs of the larger sweep so far, oldest first
    listMemoryCache,      \* cache.js: the Map, as its entries in insertion order
    listMemoryCacheEtag,
    listMemoryCacheLastFiltersCleared,
    lastOp,               \* the list-cache call just made and what it returned
    logged,               \* labels of the console.error lines written by scheduleBackground
    posts,                \* slugs handlePost finds in the Catalog
    lastFetch,            \* router.js: the request just served and its response
    sheet,                \* the spreadsheet values fetchSheetValues returns
    catalog,              \* the index buildIndexFromSheet returned
    lastList,             \* the list query just answered and its result object
    intersect,            \* the arrays handed to intersectSortedArrays, and its result
    validated,            \* a stored Catalog read back, and hasPrecomputedMaps' verdict
    lists,                \* handleList invocations: position and response
    kvList,               \* persistent store entries under the list cache keys
    listWrites            \* background puts of list pages in flight

loaderVars == <<CACHE_TTL_SECONDS, memoryIndex, memoryIndexExpiry, memoryIndexPromise,
                rebuilds, fetchCount, kvIdx, kvIdxWrites, calls>>

rlVars == <<RL_LIMIT, rateLimitMemory, rateLimitMemorySweepIterator,
            rateLimitMemoryPruneScheduled, rateLimitMemoryWasAboveThreshold,
            rateLimitMemoryLastPruneAt, rlEntries, rlWrites, kvRl, checks, cleanups>>

cacheVars == <<listMemoryCache, listMemoryCacheEtag, listMemoryCacheLastFiltersCleared,
               lastOp>>

routerVars == <<posts, lastFetch>>

validationVars == <<validated>>
listVars == <<lists, kvList, listWrites>>
catalogVars == <<sheet, catalog, lastList, intersect, validationVars, listVars>>

otherVars == <<routerVars, catalogVars>>

vars == <<now, loaderVars, rlVars, cacheVars, logged, otherVars>>

\* ---------------------------------------------------------- utils.js
\* scheduleBackground attaches promise.catch(handleError): a rejected
\* background promise is logged and nothing is raised to the request.
scheduleBackgroundAwaited(rejected, label) == [logged |-> {}, raised |-> rejected]

scheduleBackground(rejected, label) ==
    [logged |-> IF rejected THEN {label} ELSE {}, raised |-> FALSE]

\* ---------------------------------------------------------- index/service.js
shouldExpire(ttl) == ttl > 0
kvTtl(ttl) == IF shouldExpire(ttl) THEN ttl ELSE 0
indexTtlMs(ttl) == IF shouldExpire(ttl) THEN kvTtl(ttl) * 1000 ELSE Infinity
plusMs(t, d) == IF d = Infinity THEN Infinity ELSE t + d

\* indexBuilder.js hasPrecomputedMaps, on the loader's view of a Catalog:
\* a Catalog built from an empty sheet carries no index maps.
hasPrecomputedMaps(idx) == idx # NoIndex /\ idx.maps

\* line 52: the value a store read of 'idx_v1' yields
kvIdxRead(e) == e.val

\* freshness that never holds for a Catalog kept without expiry
memoryFreshFiniteExpiry == /\ memoryIndex # NoIndex
                           /\ memoryIndexExpiry # 0
                           /\ memoryIndexExpiry # Infinity
                           /\ now < memoryIndexExpiry
                           /\ hasPrecomputedMaps(memoryIndex)

\* line 47
memoryFresh == /\ memoryIndex # NoIndex
               /\ memoryIndexExpiry # 0
               /\ now < memoryIndexExpiry
               /\ hasPrecomputedMaps(memoryIndex)

\* adoption of whatever the store holds
kvUsableAnyValue(cached) == cached # NoIndex

\* line 53
kvUsable(cached) == cached # NoIndex /\ hasPrecomputedMaps(cached)

mayStartRebuildAlways(promise) == TRUE

\* line 60: if (!memoryIndexPromise)
mayStartRebuild(promise) == promise = NoPromise

IdleCall == [pc |-> "idle", force |-> FALSE, cold |-> FALSE, res |-> NoIndex,
             awaiting |-> NoPromise, started |-> NoPromise]

\* the caller is handed the Catalog held in memory instead
ServeFromMemory(c, cl) ==
    /\ calls' = [cl EXCEPT ![c].pc = "done", ![c].res = memoryIndex]
    /\ UNCHANGED <<fetchCount, rebuilds, memoryIndexPromise>>

\* lines 60-86: start a rebuild unless one is in flight, then await the promise
RebuildOrAwait(c, cl) ==
    IF mayStartRebuild(memoryIndexPromise)
    THEN /\ fetchCount' = fetchCount + 1
         /\ rebuilds' = rebuilds \cup {fetchCount + 1}
         /\ memoryIndexPromise' = fetchCount + 1
         /\ calls' = [cl EXCEPT ![c].pc = "await", ![c].awaiting = fetchCount + 1,
                                ![c].started = fetchCount + 1]
    ELSE /\ calls' = [cl EXCEPT ![c].pc = "await", ![c].awaiting = memoryIndexPromise]
         /\ UNCHANGED <<fetchCount, rebuilds, memoryIndexPromise>>

\* lines 38-52: getIndex up to its first suspension point
getIndex(c, force) ==
    /\ UNCHANGED <<rlVars, cacheVars, otherVars>>
    /\ calls[c].pc = "idle"
    /\ LET cl == [calls EXCEPT ![c].force = force,
                               ![c].cold = (memoryIndex = NoIndex
                                            /\ kvIdxRead(kvIdx) = NoIndex)]
       IN IF ~force /\ memoryFresh
          THEN /\ calls' = [cl EXCEPT ![c].pc = "done", ![c].res = memoryIndex]
               /\ UNCHANGED <<fetchCount, rebuilds, memoryIndexPromise>>
          ELSE IF ~force
          THEN /\ calls' = [cl EXCEPT ![c].pc = "kvget"]
               /\ UNCHANGED <<fetchCount, rebuilds, memoryIndexPromise>>
          ELSE RebuildOrAwait(c, cl)
    /\ UNCHANGED <<now, CACHE_TTL_SECONDS, memoryIndex, memoryIndexExpiry, kvIdx,
                   kvIdxWrites, logged>>

\* lines 52-58 then 60-86: the store read of 'idx_v1' resolves
KvGetResolves(c) ==
    /\ UNCHANGED <<rlVars, cacheVars, otherVars>>
    /\ calls[c].pc = "kvget"
    /\ LET cached == kvIdxRead(kvIdx)
       IN IF kvUsable(cached)
          THEN /\ memoryIndex' = cached
               /\ memoryIndexExpiry' = plusMs(now, indexTtlMs(CACHE_TTL_SECONDS))
               /\ calls' = [calls EXCEPT ![c].pc = "done", ![c].res = cached]
               /\ UNCHANGED <<fetchCount, rebuilds, memoryIndexPromise>>
          ELSE /\ RebuildOrAwait(c, calls)
               /\ UNCHANGED <<memoryIndex, memoryIndexExpiry>>
    /\ UNCHANGED <<now, CACHE_TTL_SECONDS, kvIdx, kvIdxWrites, logged>>

\* line 52: the store read rejects; getIndex has no handler and rejects too
KvGetRejects(c) ==
    /\ UNCHANGED <<rlVars, cacheVars, otherVars>>
    /\ calls[c].pc = "kvget"
    /\ calls' = [calls EXCEPT ![c].pc = "error"]
    /\ UNCHANGED <<now, CACHE_TTL_SECONDS, memoryIndex, memoryIndexExpiry,
                   memoryIndexPromise, rebuilds, fetchCount, kvIdx, kvIdxWrites, logged>>

\* lines 62-78: buildIndexFromSheet resolves (an empty sheet gives a Catalog
\* without index maps, indexBuilder.js lines 14-16)
BuildResolves(r, emptySheet) ==
    /\ UNCHANGED <<rlVars, cacheVars, otherVars>>
    /\ r \in rebuilds
    /\ LET built == [id |-> r, maps |-> ~emptySheet]
       IN /\ memoryIndex' = built
          /\ memoryIndexExpiry' = plusMs(now, indexTtlMs(CACHE_TTL_SECONDS))
          /\ kvIdxWrites' = kvIdxWrites \cup
                 {[val |-> built, expirationTtl |-> kvTtl(CACHE_TTL_SECONDS)]}
          /\ calls' = [c \in Calls |->
                 IF calls[c].pc = "await" /\ calls[c].awaiting = r
                 THEN [calls[c] EXCEPT !.pc = "done", !.res = built]
                 ELSE calls[c]]
    /\ rebuilds' = rebuilds \ {r}
    /\ memoryIndexPromise' = NoPromise
    /\ UNCHANGED <<now, CACHE_TTL_SECONDS, fetchCount, kvIdx, logged>>

\* a rejection handler that leaves the in-flight marker in place
BuildRejectsKeepsMarker(r) ==
    /\ UNCHANGED <<rlVars, cacheVars, otherVars>>
    /\ r \in rebuilds
    /\ rebuilds' = rebuilds \ {r}
    /\ calls' = [c \in Calls |->
           IF calls[c].pc = "await" /\ calls[c].awaiting = r
           THEN [calls[c] EXCEPT !.pc = "error"]
           ELSE calls[c]]
    /\ UNCHANGED <<now, CACHE_TTL_SECONDS, memoryIndex, memoryIndexExpiry,
                   memoryIndexPromise, fetchCount, kvIdx, kvIdxWrites, logged>>

\* lines 62, 79-82: the upstream fetch fails; every awaiting caller gets the error
BuildRejects(r) ==
    /\ UNCHANGED <<rlVars, cacheVars, otherVars>>
    /\ r \in rebuilds
    /\ rebuilds' = rebuilds \ {r}
    /\ memoryIndexPromise' = NoPromise
    /\ calls' = [c \in Calls |->
           IF calls[c].pc = "await" /\ calls[c].awaiting = r
           THEN [calls[c] EXCEPT !.pc = "error"]
           ELSE calls[c]]
    /\ UNCHANGED <<now, CACHE_TTL_SECONDS, memoryIndex, memoryIndexExpiry, fetchCount,
                   kvIdx, kvIdxWrites, logged>>

\* lines 69-70: the background put of 'idx_v1' lands
IndexWriteResolves(w) ==
    /\ UNCHANGED <<rlVars, cacheVars, otherVars>>
    /\ w \in kvIdxWrites
    /\ kvIdxWrites' = kvIdxWrites \ {w}
    /\ kvIdx' = [val |-> w.val, expirationTtl |-> w.expirationTtl]
    /\ UNCHANGED <<now, CACHE_TTL_SECONDS, memoryIndex, memoryIndexExpiry,
                   memoryIndexPromise, rebuilds, fetchCount, calls, logged>>

\* lines 69-70 with utils.js scheduleBackground: the background put rejects
IndexWriteRejects(w) ==
    /\ UNCHANGED <<rlVars, cacheVars, otherVars>>
    /\ w \in kvIdxWrites
    /\ kvIdxWrites' = kvIdxWrites \ {w}
    /\ LET sb == scheduleBackground(TRUE, "index_cache_write")
       IN /\ logged' = logged \cup sb.logged
          /\ calls' = [c \in Calls |->
                 IF sb.raised /\ calls[c].started = w.val.id
                 THEN [calls[c] EXCEPT !.pc = "error", !.res = NoIndex]
                 ELSE calls[c]]
    /\ UNCHANGED <<now, CACHE_TTL_SECONDS, memoryIndex, memoryIndexExpiry,
                   memoryIndexPromise, rebuilds, fetchCount, kvIdx>>

\* ---------------------------------------------------------- rateLimit.js
RATE_LIMIT_SYNC_STEP == 5
RATE_LIMIT_MEMORY_PRUNE_STEP == 20
RATE_LIMIT_MEMORY_PRUNE_THRESHOLD == 256
RATE_LIMIT_MEMORY_PRUNE_MAX_BATCHES == 5
RATE_LIMIT_MEMORY_PRUNE_MIN_INTERVAL == 5000

Checks == 1..NChecks
Identities == {"1.1.1.1"}
NoEntry == 0
NoIterator == -1
KvAbsent == 0       \* the store holds no value under the key
KvJunk == -1        \* the store holds a non-empty string that is no number

Max(a, b) == IF a >= b THEN a ELSE b

bucketOf(t) == (t \div 1000) \div RlWindowSec
bucketExpiresAt(t) == (bucketOf(t) + 1) * RlWindowSec * 1000
\* line 179: windowSec - Math.floor((now / 1000) % windowSec)
resetIn(t) == RlWindowSec - ((t \div 1000) % RlWindowSec)
mapKey(ip, t) == <<ip, bucketOf(t)>>
RlKeys == Identities \X (0..bucketOf(MaxTime * TickMs))

\* a cold load that starts every bucket at zero
parseKvCountIgnored(current) == 0

\* line 162: current ? parseInt(current, 10) || 0 : 0
parseKvCount(current) == IF current > 0 THEN current ELSE 0

\* Map.get / Map.set / Map.delete on the insertion-ordered entry list
MapPos(mem, key) ==
    IF \E i \in 1..Len(mem) : mem[i].key = key
    THEN CHOOSE i \in 1..Len(mem) : mem[i].key = key
    ELSE 0
MapGet(mem, key) == IF MapPos(mem, key) = 0 THEN NoEntry ELSE mem[MapPos(mem, key)].obj
MapSet(mem, key, id) ==
    IF MapPos(mem, key) = 0
    THEN Append(mem, [key |-> key, obj |-> id])
    ELSE [mem EXCEPT ![MapPos(mem, key)].obj = id]
RemoveAt(mem, i) == [j \in 1..(Len(mem) - 1) |-> IF j < i THEN mem[j] ELSE mem[j + 1]]
\* a live Map iterator skips nothing and repeats nothing when an entry it
\* has passed is deleted
IterAfterDelete(iter, i) == IF iter # NoIterator /\ i <= iter THEN iter - 1 ELSE iter

\* a sweep that removes every expired bucket at once, whatever the limit
pruneWholeMap(mem, iter, objs, t, limit, processed, pruned) ==
    LET kept == SelectSeq(mem, LAMBDA e : ~(objs[e.obj].expiresAt <= t))
    IN [mem |-> kept, iter |-> Len(kept), pruned |-> Len(mem) - Len(kept),
        processed |-> Len(mem)]

\* a sweep that keeps a bucket in the millisecond its window ends
RECURSIVE pruneLoopStrictExpiry(_, _, _, _, _, _, _)
pruneLoopStrictExpiry(mem, iter, objs, t, limit, processed, pruned) ==
    IF processed >= limit
    THEN [mem |-> mem, iter |-> iter, pruned |-> pruned, processed |-> processed]
    ELSE IF iter >= Len(mem) /\ Len(mem) = 0
    THEN [mem |-> mem, iter |-> NoIterator, pruned |-> pruned, processed |-> processed]
    ELSE LET it == IF iter >= Len(mem) THEN 0 ELSE iter
             e == mem[it + 1]
         IN IF objs[e.obj].expiresAt < t
            THEN pruneLoopStrictExpiry(RemoveAt(mem, it + 1), it, objs, t, limit,
                                       processed + 1, pruned + 1)
            ELSE pruneLoopStrictExpiry(mem, it + 1, objs, t, limit, processed + 1, pruned)

\* lines 74-91: one iteration of the sweep loop on st = [mem, iter, pruned,
\* processed, done]; done is the break of line 80
pruneStep(st, objs, t) ==
    IF st.done THEN st
    ELSE IF st.iter >= Len(st.mem) /\ Len(st.mem) = 0
    THEN [st EXCEPT !.iter = NoIterator, !.done = TRUE]
    ELSE LET it == IF st.iter >= Len(st.mem) THEN 0 ELSE st.iter
             e == st.mem[it + 1]
         IN IF objs[e.obj].expiresAt <= t
            THEN [mem |-> RemoveAt(st.mem, it + 1), iter |-> it,
                  pruned |-> st.pruned + 1, processed |-> st.processed + 1,
                  done |-> FALSE]
            ELSE [st EXCEPT !.iter = it + 1, !.processed = st.processed + 1]

\* n iterations, one after the other (halved, to keep the evaluation shallow)
RECURSIVE pruneSteps(_, _, _, _)
pruneSteps(st, objs, t, n) ==
    IF n <= 0 THEN st
    ELSE IF n = 1 THEN pruneStep(st, objs, t)
    ELSE CHOOSE r \in {pruneSteps(half, objs, t, n - (n \div 2)) :
                          half \in {pruneSteps(st, objs, t, n \div 2)}} : TRUE

\* lines 73-92: the sweep loop, while (processed < limit)
pruneLoop(mem, iter, objs, t, limit, processed, pruned) ==
    LET r == pruneSteps([mem |-> mem, iter |-> iter, pruned |-> pruned,
                         processed |-> processed, done |-> FALSE],
                        objs, t, limit - processed)
    IN [mem |-> r.mem, iter |-> r.iter, pruned |-> r.pruned, processed |-> r.processed]

\* lines 63-99
pruneRateLimitMemory(mem, iter, objs, t, limit) ==
    IF Len(mem) = 0 \/ limit <= 0
    THEN [mem |-> mem, iter |-> iter, pruned |-> 0, processed |-> 0]
    ELSE LET r == pruneLoop(mem, IF iter = NoIterator THEN 0 ELSE iter, objs, t,
                            limit, 0, 0)
         IN [mem |-> r.mem,
             iter |-> IF Len(r.mem) = 0 THEN NoIterator ELSE r.iter,
             pruned |-> r.pruned, processed |-> r.processed]

\* lines 124-130: the batches of the larger sweep (it has no suspension point);
\* pruned is what the last batch removed
RECURSIVE cleanupBatches(_, _, _, _, _, _)
cleanupBatches(mem, iter, objs, t, batches, pruned) ==
    IF batches < RATE_LIMIT_MEMORY_PRUNE_MAX_BATCHES
       /\ Len(mem) > RATE_LIMIT_MEMORY_PRUNE_THRESHOLD
    THEN CHOOSE left \in
             {IF r.pruned = 0
              THEN [mem |-> r.mem, iter |-> r.iter, batches |-> batches + 1, pruned |-> 0]
              ELSE cleanupBatches(r.mem, r.iter, objs, t, batches + 1, r.pruned) :
                 r \in {pruneRateLimitMemory(mem, iter, objs, t,
                                             RATE_LIMIT_MEMORY_PRUNE_STEP * 4)}} : TRUE
    ELSE [mem |-> mem, iter |-> iter, batches |-> batches, pruned |-> pruned]

\* lines 101-141, from the flags fl = [scheduled, wasAbove, lastPruneAt]; t is the
\* handler's now, dateNow the Date.now() of line 127; ran holds the record of
\* the sweep when one was started: the map size it found and left, its
\* batches and what the last of them removed
scheduleRateLimitPrune(mem, iter, objs, t, dateNow, fl) ==
    IF Len(mem) <= RATE_LIMIT_MEMORY_PRUNE_THRESHOLD
    THEN [mem |-> mem, iter |-> iter, fl |-> [fl EXCEPT !.wasAbove = FALSE], ran |-> <<>>]
    ELSE IF fl.wasAbove /\ (t - fl.lastPruneAt) < RATE_LIMIT_MEMORY_PRUNE_MIN_INTERVAL
    THEN [mem |-> mem, iter |-> iter, fl |-> [fl EXCEPT !.wasAbove = TRUE], ran |-> <<>>]
    ELSE IF fl.scheduled
    THEN [mem |-> mem, iter |-> iter, fl |-> [fl EXCEPT !.wasAbove = TRUE], ran |-> <<>>]
    ELSE CHOOSE swept \in
             {[mem |-> r.mem,
               iter |-> IF Len(r.mem) = 0 THEN NoIterator ELSE r.iter,
               fl |-> [scheduled |-> FALSE,
                       wasAbove |-> Len(r.mem) > RATE_LIMIT_MEMORY_PRUNE_THRESHOLD,
                       lastPruneAt |-> t],
               ran |-> <<[at |-> t, from |-> Len(mem), batches |-> r.batches,
                          pruned |-> r.pruned, size |-> Len(r.mem)]>>] :
                 r \in {cleanupBatches(mem, iter, objs, dateNow, 0, 0)}} : TRUE

pruneFlags == [scheduled |-> rateLimitMemoryPruneScheduled,
               wasAbove |-> rateLimitMemoryWasAboveThreshold,
               lastPruneAt |-> rateLimitMemoryLastPruneAt]

\* a limiter that syncs on the step alone
shouldSyncStepOnly(e, limit) == e.count - e.syncedCount >= RATE_LIMIT_SYNC_STEP

\* lines 195-199
shouldSync(e, limit) ==
    \/ e.count - e.syncedCount >= RATE_LIMIT_SYNC_STEP
    \/ (limit > 0 /\ e.count >= Max(1, limit - 1))
    \/ (~e.hasKvValue /\ e.count = 1)

\* entry objects still reachable: held by the Map or by the closure of a put in flight
Reachable(objs, mem, writes) ==
    LET held == {mem[j].obj : j \in 1..Len(mem)} \cup {w.obj : w \in writes}
    IN [id \in DOMAIN objs \cap held |-> objs[id]]

\* key and t are the handler's mapKey and now; kvCount is the count a cold load
\* read; retryAfter is the Retry-After header of a 429 response
IdleCheck == [pc |-> "idle", key |-> <<>>, t |-> 0, res |-> "none", kvCount |-> -1,
              retryAfter |-> 0]

\* lines 176-230: the decision on entry object id, and the sync it schedules
Decide(c, ck, id, mem, iter, objs) ==
    LET count == objs[id].count
    IN IF count >= RL_LIMIT /\ RL_LIMIT > 0
       THEN /\ checks' = [checks EXCEPT ![c] =
                              [ck EXCEPT !.pc = "done", !.res = "denied", !.t = 0,
                                         !.retryAfter = resetIn(ck.t)]]
            /\ rateLimitMemory' = mem
            /\ rateLimitMemorySweepIterator' = iter
            /\ rlEntries' = Reachable(objs, mem, rlWrites)
            /\ UNCHANGED <<rlWrites, rateLimitMemoryPruneScheduled,
                           rateLimitMemoryWasAboveThreshold, rateLimitMemoryLastPruneAt,
                           cleanups>>
       ELSE LET o1 == [objs EXCEPT ![id].count = count + 1]
                m1 == MapSet(mem, ck.key, id)
                sp == scheduleRateLimitPrune(m1, iter, o1, ck.t, now, pruneFlags)
                due == shouldSync(o1[id], RL_LIMIT)
                queue == due /\ ~o1[id].syncScheduled
                o2 == IF ~due THEN o1
                      ELSE IF o1[id].syncScheduled
                      THEN [o1 EXCEPT ![id].needsSyncAfterCurrent = TRUE]
                      ELSE [o1 EXCEPT ![id].syncScheduled = TRUE,
                                      ![id].needsSyncAfterCurrent = FALSE]
                w2 == IF queue
                      THEN rlWrites \cup {[obj |-> id, key |-> ck.key,
                                           val |-> o1[id].count, by |-> c]}
                      ELSE rlWrites
            IN /\ checks' = [checks EXCEPT ![c] =
                                 [ck EXCEPT !.pc = "done", !.res = "allowed", !.t = 0]]
               /\ rateLimitMemory' = sp.mem
               /\ rateLimitMemorySweepIterator' = sp.iter
               /\ rateLimitMemoryPruneScheduled' = sp.fl.scheduled
               /\ rateLimitMemoryWasAboveThreshold' = sp.fl.wasAbove
               /\ rateLimitMemoryLastPruneAt' = sp.fl.lastPruneAt
               /\ cleanups' = cleanups \o sp.ran
               /\ rlWrites' = w2
               /\ rlEntries' = Reachable(o2, sp.mem, w2)

\* lines 143-160 and, when the bucket is held, 172-230
enforceRateLimit(c, ip) ==
    /\ UNCHANGED <<loaderVars, cacheVars, otherVars>>
    /\ checks[c].pc = "idle"
    /\ LET t == now
           key == mapKey(ip, t)
           p == pruneRateLimitMemory(rateLimitMemory, rateLimitMemorySweepIterator,
                                     rlEntries, t, RATE_LIMIT_MEMORY_PRUNE_STEP)
           held == MapGet(p.mem, key)
           expired == held # NoEntry /\ rlEntries[held].expiresAt <= t
           mem == IF expired THEN RemoveAt(p.mem, MapPos(p.mem, key)) ELSE p.mem
           iter == IF expired THEN IterAfterDelete(p.iter, MapPos(p.mem, key)) ELSE p.iter
           ck == [IdleCheck EXCEPT !.key = key, !.t = t]
       IN IF held = NoEntry \/ expired
          THEN /\ checks' = [checks EXCEPT ![c] = [ck EXCEPT !.pc = "kvget"]]
               /\ rateLimitMemory' = mem
               /\ rateLimitMemorySweepIterator' = iter
               /\ rlEntries' = Reachable(rlEntries, mem, rlWrites)
               /\ UNCHANGED <<rlWrites, rateLimitMemoryPruneScheduled,
                              rateLimitMemoryWasAboveThreshold, rateLimitMemoryLastPruneAt,
                              cleanups>>
          ELSE Decide(c, ck, held, mem, iter,
                      [rlEntries EXCEPT ![held].expiresAt = bucketExpiresAt(t)])
    /\ UNCHANGED <<now, RL_LIMIT, kvRl, logged>>

\* lines 161-171 then 176-230: the cold-load store read resolves
ColdLoadResolves(c) ==
    /\ UNCHANGED <<loaderVars, cacheVars, otherVars>>
    /\ checks[c].pc = "kvget"
    /\ LET ck == checks[c]
           key == ck.key
           current == kvRl[key]
           kvCount == parseKvCount(current)
           entry == [count |-> kvCount,
                     expiresAt |-> bucketExpiresAt(ck.t),
                     syncedCount |-> kvCount,
                     hasKvValue |-> current # KvAbsent,
                     syncScheduled |-> FALSE,
                     needsSyncAfterCurrent |-> FALSE]
           objs == [id \in DOMAIN rlEntries \cup {c} |->
                        IF id = c THEN entry ELSE rlEntries[id]]
       IN Decide(c, [ck EXCEPT !.kvCount = kvCount], c,
                 MapSet(rateLimitMemory, key, c), rateLimitMemorySweepIterator, objs)
    /\ UNCHANGED <<now, RL_LIMIT, kvRl, logged>>

\* line 161: the store read rejects; enforceRateLimit has no handler, and the
\* router (router.js lines 83-85) answers 500
ColdLoadRejects(c) ==
    /\ UNCHANGED <<loaderVars, cacheVars, otherVars>>
    /\ checks[c].pc = "kvget"
    /\ checks' = [checks EXCEPT ![c].pc = "done", ![c].res = "error", ![c].t = 0]
    /\ UNCHANGED <<now, RL_LIMIT, rateLimitMemory, rateLimitMemorySweepIterator,
                   rateLimitMemoryPruneScheduled, rateLimitMemoryWasAboveThreshold,
                   rateLimitMemoryLastPruneAt, rlEntries, rlWrites, kvRl, logged,
                   cleanups>>

\* lines 205-214: a sync put resolves
SyncWriteResolves(w) ==
    /\ UNCHANGED <<loaderVars, cacheVars, otherVars>>
    /\ w \in rlWrites
    /\ kvRl' = [kvRl EXCEPT ![w.key] = w.val]
    /\ LET e == rlEntries[w.obj]
           e1 == [e EXCEPT !.syncedCount = Max(e.syncedCount, w.val),
                           !.hasKvValue = TRUE,
                           !.syncScheduled = FALSE,
                           !.needsSyncAfterCurrent = FALSE]
           again == e.needsSyncAfterCurrent /\ e1.count - e1.syncedCount > 0
           e2 == IF again THEN [e1 EXCEPT !.syncScheduled = TRUE] ELSE e1
           w2 == (rlWrites \ {w}) \cup
                 (IF again THEN {[obj |-> w.obj, key |-> w.key, val |-> e1.count,
                                  by |-> w.by]}
                  ELSE {})
       IN /\ rlWrites' = w2
          /\ rlEntries' = Reachable([rlEntries EXCEPT ![w.obj] = e2], rateLimitMemory, w2)
    /\ UNCHANGED <<now, RL_LIMIT, rateLimitMemory, rateLimitMemorySweepIterator,
                   rateLimitMemoryPruneScheduled, rateLimitMemoryWasAboveThreshold,
                   rateLimitMemoryLastPruneAt, checks, logged, cleanups>>

\* lines 215-219 with utils.js scheduleBackground: a sync put rejects
SyncWriteRejects(w) ==
    /\ UNCHANGED <<loaderVars, cacheVars, otherVars>>
    /\ w \in rlWrites
    /\ rlWrites' = rlWrites \ {w}
    /\ rlEntries' = Reachable([rlEntries EXCEPT ![w.obj].syncScheduled = FALSE],
                              rateLimitMemory, rlWrites \ {w})
    /\ LET sb == scheduleBackground(TRUE, "rate_limit_sync")
       IN /\ logged' = logged \cup sb.logged
          /\ checks' = IF sb.raised THEN [checks EXCEPT ![w.by].res = "error"] ELSE checks
    /\ UNCHANGED <<now, RL_LIMIT, rateLimitMemory, rateLimitMemorySweepIterator,
                   rateLimitMemoryPruneScheduled, rateLimitMemoryWasAboveThreshold,
                   rateLimitMemoryLastPruneAt, kvRl, cleanups>>

\* ---------------------------------------------------------- cache.js
Etags == {"F1", "F2"}
ListKeys == Etags \X (1..NParams)      \* buildListCacheKey(etag, params)
\* handleList stores under a key the page computed for that key
PageOf(key) == <<"page", key>>
\* getListCacheTtlSeconds is clamped to a positive value: every call passes it
listCacheTtlMs == ListTtlSeconds * 1000
NoEtag == "null"
Miss == <<"null", <<NoEtag, 0>>>>      \* getEntry's null, in the shape of a page
\* removed: the entries of other keys the call took out of the Map; for a
\* sync, key holds the fingerprint tracked before the call
NoOp == [op |-> "none", key |-> <<NoEtag, 0>>, res |-> Miss, removed |-> 0]

HasKey(cache, key) == \E i \in 1..Len(cache) : cache[i].key = key
CacheDelete(cache, key) == SelectSeq(cache, LAMBDA e : e.key # key)

\* lines 30-39: drop the leading entries that have expired
RECURSIVE pruneExpiredListMemoryCache(_, _, _)
pruneExpiredListMemoryCache(cache, ttlMs, t) ==
    IF ~(ttlMs > 0) \/ cache = <<>> THEN cache
    ELSE IF (t - Head(cache).insertedAt) > ttlMs
    THEN pruneExpiredListMemoryCache(Tail(cache), ttlMs, t)
    ELSE cache

RECURSIVE evictNewestToCapacity(_)
evictNewestToCapacity(cache) ==
    IF ~(MaxEntries > 0) THEN <<>>
    ELSE IF Len(cache) >= MaxEntries
    THEN evictNewestToCapacity(SubSeq(cache, 1, Len(cache) - 1))
    ELSE cache

\* an eviction that stops as soon as the Map is not above its capacity
RECURSIVE evictWhileOverCapacity(_)
evictWhileOverCapacity(cache) ==
    IF ~(MaxEntries > 0) THEN <<>>
    ELSE IF Len(cache) > MaxEntries
    THEN evictWhileOverCapacity(Tail(cache))
    ELSE cache

\* lines 41-51
RECURSIVE evictListMemoryCacheToCapacity(_)
evictListMemoryCacheToCapacity(cache) ==
    IF ~(MaxEntries > 0) THEN <<>>
    ELSE IF Len(cache) >= MaxEntries
    THEN evictListMemoryCacheToCapacity(Tail(cache))
    ELSE cache

syncIndexStateKeepsEntries(cache, tracked, last, etag, filtersCleared) ==
    IF etag # tracked
    THEN [cache |-> cache, etag |-> etag, last |-> filtersCleared]
    ELSE [cache |-> IF filtersCleared /\ ~last THEN <<>> ELSE cache,
          etag |-> tracked, last |-> filtersCleared]

syncIndexStateClearsWhenCleared(cache, tracked, last, etag, filtersCleared) ==
    IF etag # tracked
    THEN [cache |-> <<>>, etag |-> etag, last |-> filtersCleared]
    ELSE [cache |-> IF filtersCleared THEN <<>> ELSE cache,
          etag |-> tracked, last |-> filtersCleared]

\* lines 53-65
syncIndexState(cache, tracked, last, etag, filtersCleared) ==
    IF etag # tracked
    THEN [cache |-> <<>>, etag |-> etag, last |-> filtersCleared]
    ELSE [cache |-> IF filtersCleared /\ ~last THEN <<>> ELSE cache,
          etag |-> tracked, last |-> filtersCleared]

getEntryExpiresAtTtl(cache, key, ttlMs, t) ==
    IF ~HasKey(cache, key) THEN [cache |-> cache, res |-> Miss]
    ELSE LET entry == CHOOSE e \in {cache[i] : i \in 1..Len(cache)} : e.key = key
         IN IF ttlMs > 0 /\ (t - entry.insertedAt) >= ttlMs
            THEN [cache |-> CacheDelete(cache, key), res |-> Miss]
            ELSE [cache |-> cache, res |-> entry.value]

\* lines 67-75
getEntry(cache, key, ttlMs, t) ==
    IF ~HasKey(cache, key) THEN [cache |-> cache, res |-> Miss]
    ELSE LET entry == CHOOSE e \in {cache[i] : i \in 1..Len(cache)} : e.key = key
         IN IF ttlMs > 0 /\ (t - entry.insertedAt) > ttlMs
            THEN [cache |-> CacheDelete(cache, key), res |-> Miss]
            ELSE [cache |-> cache, res |-> entry.value]

\* lines 77-85
setEntry(cache, key, value, ttlMs, t) ==
    IF ~(ttlMs > 0) \/ ~(MaxEntries > 0) THEN cache
    ELSE Append(evictListMemoryCacheToCapacity(
                    CacheDelete(pruneExpiredListMemoryCache(cache, ttlMs, t), key)),
                [key |-> key, value |-> value, insertedAt |-> t])

\* listCache.syncIndexState(etag, filtersCleared)
SyncIndexState(etag, filtersCleared) ==
    /\ UNCHANGED <<loaderVars, rlVars, otherVars>>
    /\ LET r == syncIndexState(listMemoryCache, listMemoryCacheEtag,
                               listMemoryCacheLastFiltersCleared, etag, filtersCleared)
       IN /\ listMemoryCache' = r.cache
          /\ listMemoryCacheEtag' = r.etag
          /\ listMemoryCacheLastFiltersCleared' = r.last
    /\ lastOp' = [NoOp EXCEPT !.op = "sync",
                              !.key = <<listMemoryCacheEtag, 0>>,
                              !.removed = Len(listMemoryCache) - Len(listMemoryCache')]
    /\ UNCHANGED <<now, logged>>

\* listCache.set(key, value, ttlMs)
CacheSet(key, value, ttlMs) ==
    /\ UNCHANGED <<loaderVars, rlVars, otherVars>>
    /\ listMemoryCache' = setEntry(listMemoryCache, key, value, ttlMs, now)
    /\ lastOp' = [NoOp EXCEPT !.op = "set", !.key = key,
                              !.removed = Len(CacheDelete(listMemoryCache, key)) + 1
                                          - Len(listMemoryCache')]
    /\ UNCHANGED <<now, logged, listMemoryCacheEtag, listMemoryCacheLastFiltersCleared>>

\* listCache.get(key, ttlMs)
CacheGet(key, ttlMs) ==
    /\ UNCHANGED <<loaderVars, rlVars, otherVars>>
    /\ LET r == getEntry(listMemoryCache, key, ttlMs, now)
       IN /\ listMemoryCache' = r.cache
          /\ lastOp' = [NoOp EXCEPT !.op = "get", !.key = key, !.res = r.res,
                                    !.removed = Len(listMemoryCache) - Len(r.cache)]
    /\ UNCHANGED <<now, logged, listMemoryCacheEtag, listMemoryCacheLastFiltersCleared>>

\* ---------------------------------------------------------- router.js
Methods == {"GET", "HEAD", "OPTIONS", "POST"}
Slugs == {"hello-world", "missing"}
NoSlug == ""
\* url.pathname: /v1/list, /v1/post/<slug>, /v1/debug, another /v1/ path, another path
Paths == {[kind |-> k, slug |-> NoSlug] : k \in {"list", "debug", "v1other", "other"}}
         \cup {[kind |-> "post", slug |-> sl] : sl \in Slugs}
startsWithV1(path) == path.kind # "other"
\* what the injected rateLimiter does: answer null, answer a 429, or reject
LimiterOutcomes == {"null", "429", "rejects"}
HandlerOutcomes == {"returns", "throws"}

JsonType == "application/json; charset=utf-8"
TextType == "text/plain;charset=UTF-8"
NoHeader == "none"
PublicCache == "public, max-age=60"

\* utils.js json(obj, status, headers)
json(status, cacheControl, called) ==
    [status |-> status, contentType |-> JsonType, cacheControl |-> cacheControl,
     body |-> "json", called |-> called]

\* service.js handlePost lines 198-207: the data it returns for a slug
handlePostData(slug, found) ==
    IF slug \in found THEN [ok |-> TRUE, code |-> 0] ELSE [ok |-> FALSE, code |-> 404]

\* router.js lines 10-86: the response of fetch(request); called names the
\* handler the request reached
fetch(method, path, limiter, outcome, found) ==
    IF method = "OPTIONS"
    THEN [status |-> 204, contentType |-> NoHeader, cacheControl |-> NoHeader,
          body |-> "empty", called |-> "none"]
    ELSE IF startsWithV1(path) /\ method \notin {"GET", "HEAD"}
    THEN json(405, NoHeader, "none")
    ELSE IF startsWithV1(path) /\ limiter = "rejects"
    THEN json(500, NoHeader, "none")
    ELSE IF startsWithV1(path) /\ limiter = "429"
    THEN json(429, NoHeader, "none")
    ELSE IF method = "HEAD" /\ startsWithV1(path)
    THEN [status |-> 200, contentType |-> NoHeader, cacheControl |-> PublicCache,
          body |-> "empty", called |-> "none"]
    ELSE IF path.kind = "list"
    THEN IF outcome = "throws" THEN json(500, NoHeader, "handleList")
         ELSE json(200, PublicCache, "handleList")
    ELSE IF path.kind = "post"
    THEN IF outcome = "throws" THEN json(500, NoHeader, "handlePost")
         ELSE LET data == handlePostData(path.slug, found)
              IN json(IF data.ok THEN 200 ELSE IF data.code # 0 THEN data.code ELSE 404,
                      PublicCache, "handlePost")
    ELSE IF path.kind = "debug"
    THEN IF outcome = "throws" THEN json(500, NoHeader, "getIndex")
         ELSE json(200, "no-store", "getIndex")
    ELSE [status |-> 404, contentType |-> TextType, cacheControl |-> NoHeader,
          body |-> "text", called |-> "none"]

NoFetch == [method |-> "none", path |-> [kind |-> "other", slug |-> NoSlug],
            limiter |-> "null", outcome |-> "returns",
            resp |-> [status |-> 0, contentType |-> NoHeader, cacheControl |-> NoHeader,
                      body |-> "empty", called |-> "none"]]

\* one request served by the fetch handler
Fetch(method, path, limiter, outcome) ==
    /\ lastFetch' = [method |-> method, path |-> path, limiter |-> limiter,
                     outcome |-> outcome,
                     resp |-> fetch(method, path, limiter, outcome, posts)]
    /\ UNCHANGED <<now, loaderVars, rlVars, cacheVars, logged, posts, catalogVars>>

\* ---------------------------------------------------------- index/indexBuilder.js
\* A string is the sequence of its characters.
LowerChars == <<"a", "b", "c", "d", "e", "f", "g", "h", "i", "j", "k", "l", "m", "n", "o", "p", "q", "r", "s", "t", "u", "v", "w", "x", "y", "z">>
DigitChars == <<"0", "1", "2", "3", "4", "5", "6", "7", "8", "9">>
Range(s) == {s[i] : i \in 1..Len(s)}

\* String.prototype.toLowerCase
toLowerCase(s) ==
    LET UpperChars == <<"A", "B", "C", "D", "E", "F", "G", "H", "I", "J", "K", "L", "M", "N", "O", "P", "Q", "R", "S", "T", "U", "V", "W", "X", "Y", "Z">>
    IN [i \in 1..Len(s) |->
          IF \E j \in 1..26 : UpperChars[j] = s[i]
          THEN LowerChars[CHOOSE j \in 1..26 : UpperChars[j] = s[i]]
          ELSE s[i]]

\* String.prototype.trim
trim(s) ==
    LET kept == {i \in 1..Len(s) : s[i] # " "}
    IN IF kept = {} THEN <<>>
       ELSE SubSeq(s, CHOOSE i \in kept : \A j \in kept : i <= j,
                      CHOOSE i \in kept : \A j \in kept : i >= j)

\* str.match(/[a-z0-9]+/g): the maximal runs of [a-z0-9], in order
RECURSIVE matchAlnumRuns(_, _, _)
matchAlnumRuns(s, i, run) ==
    IF i > Len(s)
    THEN IF run = <<>> THEN <<>> ELSE <<run>>
    ELSE IF s[i] \in Range(LowerChars) \cup Range(DigitChars)
    THEN matchAlnumRuns(s, i + 1, Append(run, s[i]))
    ELSE (IF run = <<>> THEN <<>> ELSE <<run>>) \o matchAlnumRuns(s, i + 1, <<>>)

\* Set.prototype.add for each item: a Set is the sequence of its members in
\* insertion order
RECURSIVE setAdd(_, _)
setAdd(set, items) ==
    IF items = <<>> THEN set
    ELSE setAdd(IF items[1] \in Range(set) THEN set ELSE Append(set, items[1]), Tail(items))

\* lines 339-347
addTokens(set, value) == setAdd(set, matchAlnumRuns(toLowerCase(value), 1, <<>>))

\* lines 481-486
tokenizeQuery(qRaw) == matchAlnumRuns(toLowerCase(qRaw), 1, <<>>)

\* lines 249-254: lowercase, every run outside [a-z0-9] becomes one '-', and
\* leading and trailing '-' are dropped (strings here stay under 120 characters)
slugify(s) ==
    LET RECURSIVE joinWithDash(_)
        joinWithDash(runs) ==
            IF runs = <<>> THEN <<>>
            ELSE IF Len(runs) = 1 THEN runs[1]
            ELSE runs[1] \o <<"-">> \o joinWithDash(Tail(runs))
    IN joinWithDash(matchAlnumRuns(toLowerCase(s), 1, <<>>))

\* a.localeCompare(b) < 0 on slugs: '-' before digits before letters
RECURSIVE localeCompareLess(_, _)
localeCompareLess(a, b) ==
    LET rank(c) ==
            IF c = "-" THEN 0
            ELSE IF \E j \in 1..10 : DigitChars[j] = c
            THEN CHOOSE j \in 1..10 : DigitChars[j] = c
            ELSE 10 + CHOOSE j \in 1..26 : LowerChars[j] = c
    IN IF b = <<>> THEN FALSE
       ELSE IF a = <<>> THEN TRUE
       ELSE IF a[1] = b[1] THEN localeCompareLess(Tail(a), Tail(b))
       ELSE rank(a[1]) < rank(b[1])

\* the data rows a sheet may hold: name, category, tags and mood labels as
\* splitCSV leaves them, date as the day of an ISO date of one month
SheetRows == {
    [name |-> <<"T", "i", "k", "i", " ", "T", "i", "m", "e">>, category |-> <<"T", "i", "k", "i">>, tags |-> <<<<"t", "r", "o", "p", "i", "c", "a", "l">>>>,
     moods |-> <<<<"h", "a", "p", "p", "y">>>>, date |-> 4],
    [name |-> <<"T", "I", "K", "I", " ", "T", "I", "M", "E">>, category |-> <<"T", "i", "k", "i">>, tags |-> <<<<"t", "r", "o", "p", "i", "c", "a", "l">>>>,
     moods |-> <<<<"h", "a", "p", "p", "y">>>>, date |-> 4],
    [name |-> <<"M", "y", "s", "t", "e", "r", "y", " ", "M", "i", "x">>, category |-> <<"u", "n", "k", "n", "o", "w", "n", "_", "o", "t", "h", "e", "r">>, tags |-> <<>>,
     moods |-> <<>>, date |-> 3],
    [name |-> <<"C", "l", "a", "s", "s", "i", "c", " ", "S", "o", "u", "r">>, category |-> <<"C", "l", "a", "s", "s", "i", "c", "s">>, tags |-> <<<<"c", "i", "t", "r", "u", "s">>>>,
     moods |-> <<<<"b", "r", "i", "g", "h", "t">>>>, date |-> 2],
    [name |-> <<"S", "o", "u", "r", " ", "T", "i", "m", "e">>, category |-> <<"c", "l", "a", "s", "s", "i", "c", "s">>,
     tags |-> <<<<"c", "i", "t", "r", "u", "s">>, <<"c", "i", "t", "r", "u", "s">>>>,
     moods |-> <<<<"b", "r", "i", "g", "h", "t">>, <<"h", "a", "p", "p", "y">>>>, date |-> 5],
    [name |-> <<"!", "!">>, category |-> <<"T", "i", "k", "i">>, tags |-> <<<<"c", "i", "t", "r", "u", "s">>>>,
     moods |-> <<<<"h", "a", "p", "p", "y">>>>, date |-> 5],
    [name |-> <<"C", "i", "t", "r", "u", "s">>, category |-> <<"!", "!">>, tags |-> <<>>,
     moods |-> <<<<"c", "i", "t", "r", "u", "s">>>>, date |-> 1] }

\* data.values: no values at all, or a header row followed by up to MaxRows data rows
NoValues == [header |-> FALSE, rows |-> <<>>]
Sheets ==
    LET RECURSIVE SeqsUpTo(_)
        SeqsUpTo(n) ==
            IF n = 0 THEN {<<>>}
            ELSE SeqsUpTo(n - 1) \cup {Append(q, x) : q \in SeqsUpTo(n - 1), x \in SheetRows}
    IN {NoValues} \cup {[header |-> TRUE, rows |-> r] : r \in SeqsUpTo(MaxRows)}

\* lines 27-93: the row objects pushed, in sheet order (a row without slug is skipped)
RECURSIVE parseRows(_, _)
parseRows(values, i) ==
    IF i > Len(values) THEN <<>>
    ELSE LET r == values[i]
             slug == slugify(r.name)
             row == [_row |-> i + 1, slug |-> slug, name |-> r.name, date |-> r.date,
                     category |-> r.category, tags |-> r.tags, mood_labels |-> r.moods]
         IN (IF slug = <<>> THEN <<>> ELSE <<row>>) \o parseRows(values, i + 1)

\* lines 125-129: rows.sort by date descending, then slug ascending (stable)
RECURSIVE sortRows(_)
sortRows(rows) ==
    IF rows = <<>> THEN <<>>
    ELSE LET before(a, b) ==
                 a.date > b.date \/ (a.date = b.date /\ localeCompareLess(a.slug, b.slug))
             rest == sortRows(SubSeq(rows, 1, Len(rows) - 1))
             x == rows[Len(rows)]
             k == Cardinality({j \in 1..Len(rest) : ~before(x, rest[j])})
         IN SubSeq(rest, 1, k) \o <<x>> \o SubSeq(rest, k + 1, Len(rest))

\* Array.from(set).sort((a, b) => a - b)
RECURSIVE sortAscending(_)
sortAscending(set) ==
    IF set = {} THEN <<>>
    ELSE LET m == CHOOSE x \in set : \A y \in set : x <= y
         IN <<m>> \o sortAscending(set \ {m})

\* lines 72-73: tags.map(t => t.toLowerCase())
lowercased(list) == [i \in 1..Len(list) |-> toLowerCase(list[i])]

\* lines 115-118: the Set of tokens of a row
tokenKeys(row) ==
    LET RECURSIVE addEach(_, _)
        addEach(tokens, values) ==
            IF values = <<>> THEN tokens
            ELSE addEach(addTokens(tokens, values[1]), Tail(values))
    IN addEach(<<>>, <<toLowerCase(row.name)>> \o lowercased(row.tags)
                     \o lowercased(row.mood_labels))

\* lines 100-122: the list pushed under key, one _row per push, in push order
\* (keyed: each pushed row's _row with the keys it is pushed under)
RECURSIVE pushed(_, _)
pushed(keyed, key) ==
    IF keyed = <<>> THEN <<>>
    ELSE LET ks == keyed[1].keys
         IN [n \in 1..Cardinality({j \in 1..Len(ks) : ks[j] = key}) |-> keyed[1]._row]
            \o pushed(Tail(keyed), key)

\* the pushed list with each row replaced by its position, left in push order
normalizeIndexPushOrder(list, rows) ==
    [n \in 1..Len(list) |-> (CHOOSE p \in 1..Len(rows) : rows[p]._row = list[n]) - 1]

\* lines 131-148, for the list pushed under one key: rowToIndex.get(row) of
\* each pushed row, through a Set, sorted
normalizeIndex(list, rows) ==
    sortAscending({(CHOOSE p \in 1..Len(rows) : rows[p]._row = list[n]) - 1 :
                      n \in 1..Len(list)})

\* an index map: its non-empty keys, each with its normalized list
indexMap(keyed, rows) ==
    LET keys == UNION {Range(keyed[i].keys) : i \in 1..Len(keyed)} \ {<<>>}
    IN [k \in keys |-> normalizeIndex(pushed(keyed, k), rows)]

\* lines 349-413
buildTokenAuxiliaryIndexes(tokenIndex) ==
    LET \* lines 378-383
        prefixKeys(token) ==
            IF Len(token) = 1 THEN {token}
            ELSE {SubSeq(token, 1, 2)}
                 \cup (IF Len(token) >= 3 THEN {SubSeq(token, 1, 3)} ELSE {})
        \* lines 385-397: the substrings of sizes 1..min(3, len)
        ngramKeys(token) ==
            UNION {{SubSeq(token, i, i + size - 1) : i \in 1..(Len(token) - size + 1)} :
                      size \in 1..(IF Len(token) < 3 THEN Len(token) ELSE 3)}
        convertBuckets(keysOf(_)) ==
            LET keys == UNION {keysOf(t) : t \in DOMAIN tokenIndex}
            IN [k \in keys |->
                  sortAscending(UNION {Range(tokenIndex[t]) :
                                          t \in {u \in DOMAIN tokenIndex : k \in keysOf(u)}})]
    IN [prefixIndex |-> convertBuckets(prefixKeys), ngramIndex |-> convertBuckets(ngramKeys)]

\* lines 291-321: SHA-256 of the API version, the row count and one snapshot
\* per row; the digest is taken as collision-free, so it is the hashed text
\* itself. difficulty, prep_time and the image links are empty in every sheet here.
computeIndexEtag(rows) ==
    <<"v1", Len(rows),
      [p \in 1..Len(rows) |->
          [slug |-> rows[p].slug, date |-> rows[p].date, category |-> rows[p].category,
           tags |-> rows[p].tags, mood_labels |-> rows[p].mood_labels]]>>

\* a list entry or identifier position for which Number.isInteger is false
NotInteger == 1000000001

\* lines 415-427
validateSortedIndexMap(map) ==
    \A k \in DOMAIN map :
        /\ \A n \in 1..Len(map[k]) : map[k][n] # NotInteger
        /\ \A n \in 2..Len(map[k]) : ~(map[k][n] < map[k][n - 1])

\* lines 10-176; maps tells whether the result passes hasPrecomputedMaps (454-469)
buildIndexFromSheet(data) ==
    IF ~data.header
    THEN [rows |-> <<>>, etag |-> <<"v1", "empty">>, maps |-> FALSE,
          _categoryIndex |-> <<>>, _tagIndex |-> <<>>, _moodIndex |-> <<>>,
          _tokenIndex |-> <<>>, _tokenPrefixIndex |-> <<>>, _tokenNgramIndex |-> <<>>]
    ELSE LET pushedRows == parseRows(data.rows, 1)
             rows == sortRows(pushedRows)
             keyed(keysOf(_)) ==
                 [i \in 1..Len(pushedRows) |->
                     [_row |-> pushedRows[i]._row, keys |-> keysOf(pushedRows[i])]]
             tokenIndexOut == indexMap(keyed(tokenKeys), rows)
             aux == buildTokenAuxiliaryIndexes(tokenIndexOut)
             out == [rows |-> rows, etag |-> computeIndexEtag(rows), maps |-> TRUE,
                     _categoryIndex |->
                         indexMap(keyed(LAMBDA row : <<toLowerCase(row.category)>>), rows),
                     _tagIndex |-> indexMap(keyed(LAMBDA row : lowercased(row.tags)), rows),
                     _moodIndex |->
                         indexMap(keyed(LAMBDA row : lowercased(row.mood_labels)), rows),
                     _tokenIndex |-> tokenIndexOut,
                     _tokenPrefixIndex |-> aux.prefixIndex,
                     _tokenNgramIndex |-> aux.ngramIndex]
         IN [out EXCEPT !.maps = \A m \in {out._categoryIndex, out._tagIndex, out._moodIndex,
                                          out._tokenIndex, out._tokenPrefixIndex,
                                          out._tokenNgramIndex} : validateSortedIndexMap(m)]

\* lines 471-479: _row and every field whose name has no leading underscore
serializeRow(row) ==
    [_row |-> row._row, slug |-> row.slug, name |-> row.name, date |-> row.date,
     category |-> row.category, tags |-> row.tags, mood_labels |-> row.mood_labels]

\* a merge that steps both arrays whenever the heads differ
RECURSIVE intersectSteppingBoth(_, _)
intersectSteppingBoth(a, b) ==
    IF a = <<>> \/ b = <<>> THEN <<>>
    ELSE IF a[1] = b[1] THEN <<a[1]>> \o intersectSteppingBoth(Tail(a), Tail(b))
    ELSE intersectSteppingBoth(Tail(a), Tail(b))

\* lines 554-572
RECURSIVE intersectSortedArrays(_, _)
intersectSortedArrays(a, b) ==
    IF a = <<>> \/ b = <<>> THEN <<>>
    ELSE IF a[1] = b[1] THEN <<a[1]>> \o intersectSortedArrays(Tail(a), Tail(b))
    ELSE IF a[1] < b[1] THEN intersectSortedArrays(Tail(a), b)
    ELSE intersectSortedArrays(a, Tail(b))

\* lines 544-551 and 632-642: groups.sort((a, b) => a.length - b.length), stable,
\* then the groups intersected from the shortest on, until the result is empty
intersectGroups(groups) ==
    LET RECURSIVE sortByLength(_)
        sortByLength(gs) ==
            IF gs = <<>> THEN <<>>
            ELSE LET rest == sortByLength(SubSeq(gs, 1, Len(gs) - 1))
                     x == gs[Len(gs)]
                     k == Cardinality({j \in 1..Len(rest) : Len(rest[j]) <= Len(x)})
                 IN SubSeq(rest, 1, k) \o <<x>> \o SubSeq(rest, k + 1, Len(rest))
        RECURSIVE loop(_, _)
        loop(current, gs) ==
            IF gs = <<>> \/ current = <<>> THEN current
            ELSE loop(intersectSortedArrays(current, gs[1]), Tail(gs))
        sorted == sortByLength(groups)
    IN loop(sorted[1], Tail(sorted))

\* map[key] || []
lookup(map, key) == IF key \in DOMAIN map THEN map[key] ELSE <<>>

\* a lookup that answers from the two-character prefix bucket alone
lookupTokenByPrefix(idx, token) ==
    lookup(idx._tokenPrefixIndex, SubSeq(toLowerCase(token), 1, 2))

\* lines 488-552
lookupTokenMatches(idx, token) ==
    LET normalized == toLowerCase(token)
        direct == lookup(idx._tokenIndex, normalized)
        nonEmpty(list) == IF list = <<>> THEN <<>> ELSE <<list>>
        prefixGroups ==
            IF Len(normalized) = 1
            THEN nonEmpty(lookup(idx._tokenPrefixIndex, normalized))
            ELSE nonEmpty(lookup(idx._tokenPrefixIndex, SubSeq(normalized, 1, 2)))
                 \o (IF Len(normalized) >= 3
                     THEN nonEmpty(lookup(idx._tokenPrefixIndex, SubSeq(normalized, 1, 3)))
                     ELSE <<>>)
        maxLen == IF Len(normalized) < 3 THEN Len(normalized) ELSE 3
        minLen == IF Len(normalized) = 1 THEN 1 ELSE 2
        \* lines 525-531: the Set of n-gram keys, sizes from the largest down
        RECURSIVE ngramKeyList(_, _)
        ngramKeyList(size, i) ==
            IF size < minLen THEN <<>>
            ELSE IF i > Len(normalized) - size + 1 THEN ngramKeyList(size - 1, 1)
            ELSE <<SubSeq(normalized, i, i + size - 1)>> \o ngramKeyList(size, i + 1)
        keys == setAdd(<<>>, ngramKeyList(maxLen, 1))
        RECURSIVE ngramGroups(_)
        ngramGroups(n) ==
            IF n > Len(keys) THEN <<>>
            ELSE nonEmpty(lookup(idx._tokenNgramIndex, keys[n])) \o ngramGroups(n + 1)
        groups == prefixGroups \o ngramGroups(1)
    IN IF normalized = <<>> THEN <<>>
       ELSE IF direct # <<>> THEN direct
       ELSE IF groups = <<>> THEN <<>>
       ELSE intersectGroups(groups)

\* lines 574-643
\* a search that ignores the free-text tokens
filterIndexWithoutTokens(idx, qRaw, tag, cat, mood) ==
    LET given(value, map) ==
            IF value = <<>> THEN <<>> ELSE <<lookup(map, toLowerCase(value))>>
        given3 == given(cat, idx._categoryIndex) \o given(tag, idx._tagIndex)
                  \o given(mood, idx._moodIndex)
    IN IF \E n \in 1..Len(given3) : given3[n] = <<>> THEN <<>>
       ELSE IF given3 = <<>> THEN [i \in 1..Len(idx.rows) |-> i - 1]
       ELSE intersectGroups(given3)

filterIndex(idx, qRaw, tag, cat, mood) ==
    LET rows == idx.rows
        includes(s, q) == \E i \in 1..(Len(s) - Len(q) + 1) : SubSeq(s, i, i + Len(q) - 1) = q
        scan == {i \in 1..Len(rows) :
                    LET q == toLowerCase(qRaw)
                        tags_lc == lowercased(rows[i].tags)
                        moods_lc == lowercased(rows[i].mood_labels)
                    IN /\ q # <<>> =>
                            \/ includes(toLowerCase(rows[i].name), q)
                            \/ \E t \in Range(tags_lc) : includes(t, q)
                            \/ \E mo \in Range(moods_lc) : includes(mo, q)
                       /\ tag # <<>> => toLowerCase(tag) \in Range(tags_lc)
                       /\ cat # <<>> => toLowerCase(rows[i].category) = toLowerCase(cat)
                       /\ mood # <<>> => toLowerCase(mood) \in Range(moods_lc)}
        \* one group per filter given; an empty group ends the search
        filterGroup(value, map) ==
            IF value = <<>> THEN <<>> ELSE <<lookup(map, toLowerCase(value))>>
        tokens == tokenizeQuery(qRaw)
        groups == filterGroup(cat, idx._categoryIndex)
                  \o filterGroup(tag, idx._tagIndex)
                  \o filterGroup(mood, idx._moodIndex)
                  \o [n \in 1..Len(tokens) |-> lookupTokenMatches(idx, tokens[n])]
    IN IF ~hasPrecomputedMaps(idx) THEN sortAscending({i - 1 : i \in scan})
       ELSE IF \E n \in 1..Len(groups) : groups[n] = <<>> THEN <<>>
       ELSE IF groups = <<>> THEN [i \in 1..Len(rows) |-> i - 1]
       ELSE intersectGroups(groups)

\* ------------------------------------------------ index/service.js: handleList
\* service.js lines 6-9
CATEGORY_PLACEHOLDER_MAP == {<<"u", "n", "k", "n", "o", "w", "n", "_", "o", "t", "h", "e", "r">>, <<"u", "n", "k", "n", "o", "w", "n", "o", "t", "h", "e", "r">>}

\* service.js lines 266-273
normalizeCategoryKey(value) ==
    LET normalized == toLowerCase(trim(value))
        prefixes == {<<"c", "a", "t", "_">>, <<"g", "l", "a", "s", "s", "_">>, <<"s", "t", "y", "l", "e", "_">>, <<"s", "t", "r", "e", "n", "g", "t", "h", "_">>,
                     <<"f", "l", "a", "v", "o", "r", "_">>, <<"e", "n", "e", "r", "g", "y", "_">>, <<"o", "c", "c", "_">>}
        hasPrefix(p) == Len(normalized) >= Len(p) /\ SubSeq(normalized, 1, Len(p)) = p
        stripped == IF \E p \in prefixes : hasPrefix(p)
                    THEN SubSeq(normalized, Len(CHOOSE p \in prefixes : hasPrefix(p)) + 1,
                                Len(normalized))
                    ELSE normalized
        separator(c) == c \in {" ", "/", "-"}
        RECURSIVE underscored(_, _)
        underscored(s, i) ==
            IF i > Len(s) THEN <<>>
            ELSE IF separator(s[i])
            THEN (IF i > 1 /\ separator(s[i - 1]) THEN <<>> ELSE <<"_">>)
                 \o underscored(s, i + 1)
            ELSE <<s[i]>> \o underscored(s, i + 1)
    IN SelectSeq(underscored(stripped, 1),
                 LAMBDA c : c \in Range(LowerChars) \cup Range(DigitChars) \cup {"_"})

\* the loop without the placeholder test
RECURSIVE listCategoriesKeepingPlaceholders(_, _, _)
listCategoriesKeepingPlaceholders(rows, filteredIndexes, seenCategories) ==
    IF filteredIndexes = <<>> THEN <<>>
    ELSE LET categoryValue == rows[filteredIndexes[1] + 1].category
             normalized == normalizeCategoryKey(categoryValue)
             rest == Tail(filteredIndexes)
         IN IF categoryValue = <<>> \/ normalized = <<>> \/ normalized \in seenCategories
            THEN listCategoriesKeepingPlaceholders(rows, rest, seenCategories)
            ELSE <<categoryValue>>
                 \o listCategoriesKeepingPlaceholders(rows, rest,
                                                      seenCategories \cup {normalized})

\* service.js lines 145-170: no placeholder has a replacement, so a placeholder
\* category is always skipped
RECURSIVE listCategories(_, _, _)
listCategories(rows, filteredIndexes, seenCategories) ==
    IF filteredIndexes = <<>> THEN <<>>
    ELSE LET categoryValue == rows[filteredIndexes[1] + 1].category
             normalized == normalizeCategoryKey(categoryValue)
             rest == Tail(filteredIndexes)
         IN IF \/ categoryValue = <<>>
               \/ normalized = <<>>
               \/ normalized \in CATEGORY_PLACEHOLDER_MAP
               \/ normalized \in seenCategories
            THEN listCategories(rows, rest, seenCategories)
            ELSE <<categoryValue>>
                 \o listCategories(rows, rest, seenCategories \cup {normalized})

\* service.js lines 138-181: the result object built on a cache miss
PAGE_DEFAULT == 12
listResult(idx, q, tag, cat, mood, page, size) ==
    LET filteredIndexes == filterIndex(idx, q, tag, cat, mood)
        total == Len(filteredIndexes)
        start == (page - 1) * size
        end == IF start + size < total THEN start + size ELSE total
        sliceIndexes == IF start < total THEN SubSeq(filteredIndexes, start + 1, end) ELSE <<>>
    IN [ok |-> TRUE, etag |-> idx.etag, total |-> total, page |-> page, page_size |-> size,
        has_more |-> end < total,
        posts |-> [n \in 1..Len(sliceIndexes) |-> serializeRow(idx.rows[sliceIndexes[n] + 1])],
        categories |-> listCategories(idx.rows, filteredIndexes, {})]

\* the state before the first build
NoCatalog == [buildIndexFromSheet(NoValues) EXCEPT !.etag = <<>>]

\* getIndex's rebuild, seen from the Catalog: the sheet is read and indexed
BuildIndex ==
    /\ catalog = NoCatalog
    /\ catalog' = buildIndexFromSheet(sheet)
    /\ UNCHANGED <<now, loaderVars, rlVars, cacheVars, logged, routerVars, sheet, lastList,
                   intersect, validationVars, listVars>>

\* the query parameters of a list request
ListParams == [q : {<<>>, <<"c", "i", "t", "r", "u", "s">>, <<" ", "T", "i", "k", "i", " ">>, <<"s", "o", "u", "r", " ", "t", "i", "m", "e">>, <<"t", "i">>},
               tag : {<<>>, <<"C", "i", "t", "r", "u", "s">>},
               category : {<<>>, <<"c", "l", "a", "s", "s", "i", "c", "s">>},
               mood : {<<>>, <<"h", "a", "p", "p", "y">>}]
NoList == [qp |-> [q |-> <<>>, tag |-> <<>>, category |-> <<>>, mood |-> <<>>],
           served |-> FALSE,
           result |-> listResult(NoCatalog, <<>>, <<>>, <<>>, <<>>, 1, PAGE_DEFAULT)]

\* service.js lines 89-97 and 138-181: handleList for page 1 on a cache miss
HandleList(qp) ==
    /\ catalog # NoCatalog
    /\ lastList' = [qp |-> qp, served |-> TRUE,
                    result |-> listResult(catalog, trim(qp.q), trim(qp.tag),
                                          trim(qp.category), trim(qp.mood), 1, PAGE_DEFAULT)]
    /\ UNCHANGED <<now, loaderVars, rlVars, cacheVars, logged, routerVars, sheet, catalog,
                   intersect, validationVars, listVars>>

\* the strictly ascending arrays over the positions 0..MaxPos
SortedArrays == {sortAscending(S) : S \in SUBSET (0..MaxPos)}
NoIntersect == [a |-> <<>>, b |-> <<>>, result |-> <<>>, done |-> FALSE]

\* ------------------------------------------- indexBuilder.js: hasPrecomputedMaps
\* a stored Catalog is the JSON value read back from the persistent store: its
\* fields may be absent and its lists may hold anything

MaxListLen == 2

IndexFields == {"_categoryIndex", "_tagIndex", "_moodIndex", "_tokenIndex",
                "_tokenPrefixIndex", "_tokenNgramIndex", "_slugIndex"}

\* the stored form of a Catalog whose one row matches the key "k" everywhere
WellFormed ==
    [f \in IndexFields |-> IF f = "_slugIndex" THEN [k \in {<<"k">>} |-> 0]
                           ELSE [k \in {<<"k">>} |-> <<0>>]]

\* WellFormed with one field absent or replaced by an empty map or by a map
\* whose one value is any list of up to MaxListLen numbers
StoredCatalogs ==
    LET CandidateEntries == (-1..1) \cup {NotInteger}
        CandidateLists == UNION {[1..n -> CandidateEntries] : n \in 0..MaxListLen}
        CandidateMaps == {<<>>} \cup {[k \in {<<"k">>} |-> list] : list \in CandidateLists}
        CandidateSlugMaps == {<<>>} \cup {[k \in {<<"k">>} |-> e] : e \in CandidateEntries}
    IN
    {[f \in IndexFields \ {g} |-> WellFormed[f]] : g \in IndexFields}
    \cup {[WellFormed EXCEPT ![f] = m] : f \in IndexFields \ {"_slugIndex"},
                                         m \in CandidateMaps}
    \cup {[WellFormed EXCEPT !["_slugIndex"] = m] : m \in CandidateSlugMaps}

\* lines 429-452: absent or invalid auxiliary token indexes are rebuilt in place
ensureTokenAuxIndexes(idx) ==
    LET valid(f) == f \in DOMAIN idx /\ validateSortedIndexMap(idx[f])
        built == buildTokenAuxiliaryIndexes(idx["_tokenIndex"])
        prefix == IF valid("_tokenPrefixIndex") THEN idx["_tokenPrefixIndex"]
                  ELSE built.prefixIndex
        ngram == IF valid("_tokenNgramIndex") THEN idx["_tokenNgramIndex"]
                 ELSE built.ngramIndex
    IN [ok |-> validateSortedIndexMap(prefix) /\ validateSortedIndexMap(ngram),
        idx |-> [f \in DOMAIN idx \cup {"_tokenPrefixIndex", "_tokenNgramIndex"} |->
                    IF f = "_tokenPrefixIndex" THEN prefix
                    ELSE IF f = "_tokenNgramIndex" THEN ngram ELSE idx[f]]]

\* lines 456-460: the four base indexes are present and pass the list check
baseMapsValid(idx) ==
    \A f \in {"_categoryIndex", "_tagIndex", "_moodIndex", "_tokenIndex"} :
        f \in DOMAIN idx /\ validateSortedIndexMap(idx[f])

\* lines 454-469, on the stored form
hasPrecomputedMapsStored(idx) ==
    /\ baseMapsValid(idx)
    /\ ensureTokenAuxIndexes(idx).ok
    /\ "_slugIndex" \in DOMAIN idx
    /\ \A s \in DOMAIN idx["_slugIndex"] : idx["_slugIndex"][s] # NotInteger

NoValidation == [idx |-> WellFormed, verdict |-> "unchecked"]

\* service.js line 53: getIndex applies the check to the value read from the store
ValidateStored ==
    /\ validated.verdict = "unchecked"
    /\ validated' =
           [idx |-> IF baseMapsValid(validated.idx)
                    THEN ensureTokenAuxIndexes(validated.idx).idx ELSE validated.idx,
            verdict |-> IF hasPrecomputedMapsStored(validated.idx)
                        THEN "accepted" ELSE "rejected"]
    /\ UNCHANGED <<now, loaderVars, rlVars, cacheVars, logged, routerVars, sheet, catalog,
                   lastList, intersect, listVars>>

\* ------------------------------------------- index/service.js: handleList layers
NLists == 2
Lists == 1..NLists

\* the first parameter set is page 1 with no filter (service.js line 106)
filtersClearedOf(param) == param = 1

\* the fingerprint embedded in a page (result.etag, line 174)
etagOf(page) == page[2][1]

\* a store entry: its JSON value and the time its expirationTtl ends (0: none)
NoListEntry == [val |-> Miss, exp |-> 0]
kvListRead(e, t) == IF e.exp # 0 /\ ~(t < e.exp) THEN Miss ELSE e.val

\* via: which layer answered; res: the payload served
IdleList == [pc |-> "idle", etag |-> NoEtag, key |-> <<NoEtag, 0>>, res |-> Miss,
             via |-> "none"]

\* a layer-2 hit that is adopted whatever fingerprint it embeds
adoptAnyStored(kvCached, etag) == kvCached # Miss

\* line 132
adoptStored(kvCached, etag) == kvCached # Miss /\ etagOf(kvCached) = etag

\* lines 100-129: the catalog's fingerprint is etag; layer 1 is consulted, then
\* the conditional short-circuit, and the handler suspends on the store read
handleList(r, etag, param, ifE) ==
    /\ lists[r].pc = "idle"
    /\ LET filtersCleared == filtersClearedOf(param)
           sync == syncIndexState(listMemoryCache, listMemoryCacheEtag,
                                  listMemoryCacheLastFiltersCleared, etag, filtersCleared)
           cacheKey == <<etag, param>>
           memoryCached == getEntry(sync.cache, cacheKey, listCacheTtlMs, now)
           notModified == ifE /\ filtersCleared
           req == [IdleList EXCEPT !.etag = etag, !.key = cacheKey]
       IN /\ listMemoryCache' = memoryCached.cache
          /\ listMemoryCacheEtag' = sync.etag
          /\ listMemoryCacheLastFiltersCleared' = sync.last
          /\ lists' = [lists EXCEPT ![r] =
                 IF notModified
                 THEN [req EXCEPT !.pc = "done", !.via = "not_modified"]
                 ELSE IF memoryCached.res # Miss
                 THEN [req EXCEPT !.pc = "done", !.via = "memory", !.res = memoryCached.res]
                 ELSE [req EXCEPT !.pc = "kvget"]]
    /\ UNCHANGED <<now, loaderVars, rlVars, lastOp, logged, routerVars, sheet, catalog,
                   lastList, intersect, validationVars, kvList, listWrites>>

\* lines 131-187: the store read resolves
ListGetResolves(r) ==
    /\ lists[r].pc = "kvget"
    /\ LET cacheKey == lists[r].key
           kvCached == kvListRead(kvList[cacheKey], now)
           result == PageOf(cacheKey)
       IN IF adoptStored(kvCached, lists[r].etag)
          THEN /\ listMemoryCache' =
                      setEntry(listMemoryCache, cacheKey, kvCached, listCacheTtlMs, now)
               /\ lists' = [lists EXCEPT ![r].pc = "done", ![r].via = "store",
                                         ![r].res = kvCached]
               /\ UNCHANGED listWrites
          ELSE /\ listMemoryCache' =
                      setEntry(listMemoryCache, cacheKey, result, listCacheTtlMs, now)
               /\ listWrites' = listWrites \cup
                      {[key |-> cacheKey, val |-> result,
                        expirationTtl |-> ListTtlSeconds, by |-> r]}
               /\ lists' = [lists EXCEPT ![r].pc = "done", ![r].via = "computed",
                                         ![r].res = result]
    /\ UNCHANGED <<now, loaderVars, rlVars, listMemoryCacheEtag,
                   listMemoryCacheLastFiltersCleared, lastOp, logged, routerVars, sheet,
                   catalog, lastList, intersect, validationVars, kvList>>

\* line 131: the store read rejects and handleList throws
ListGetRejects(r) ==
    /\ lists[r].pc = "kvget"
    /\ lists' = [lists EXCEPT ![r].pc = "error"]
    /\ UNCHANGED <<now, loaderVars, rlVars, cacheVars, logged, routerVars, sheet, catalog,
                   lastList, intersect, validationVars, kvList, listWrites>>

\* lines 183-185: the background put lands
ListWriteResolves(w) ==
    /\ w \in listWrites
    /\ listWrites' = listWrites \ {w}
    /\ kvList' = [kvList EXCEPT ![w.key] =
                      [val |-> w.val, exp |-> now + w.expirationTtl * 1000]]
    /\ UNCHANGED <<now, loaderVars, rlVars, cacheVars, logged, routerVars, sheet, catalog,
                   lastList, intersect, validationVars, lists>>

\* lines 183-185 with utils.js scheduleBackground: the background put rejects
ListWriteRejects(w) ==
    /\ w \in listWrites
    /\ listWrites' = listWrites \ {w}
    /\ logged' = logged \cup scheduleBackground(TRUE, "list_cache_write").logged
    /\ UNCHANGED <<now, loaderVars, rlVars, cacheVars, routerVars, sheet, catalog,
                   lastList, intersect, validationVars, lists, kvList>>

Intersect ==
    /\ ~intersect.done
    /\ intersect' = [intersect EXCEPT !.result = intersectSortedArrays(intersect.a, intersect.b),
                                      !.done = TRUE]
    /\ UNCHANGED <<now, loaderVars, rlVars, cacheVars, logged, routerVars, sheet, catalog,
                   lastList, validationVars, listVars>>

Tick ==
    /\ now < MaxTime * TickMs
    /\ now' = now + TickMs
    /\ lastOp' = NoOp
    /\ UNCHANGED <<loaderVars, rlVars, logged, listMemoryCache, listMemoryCacheEtag,
                   listMemoryCacheLastFiltersCleared, otherVars>>

InitLoader ==
    /\ CACHE_TTL_SECONDS \in {0, CacheTtlSeconds}
    /\ memoryIndex = NoIndex
    /\ memoryIndexExpiry = 0
    /\ memoryIndexPromise = NoPromise
    /\ rebuilds = {}
    /\ fetchCount = 0
    /\ kvIdx = NoKvEntry
    /\ kvIdxWrites = {}
    /\ calls = [c \in Calls |-> IdleCall]

InitRateLimiter ==
    /\ RL_LIMIT \in 0..RlLimit
    /\ rateLimitMemory = <<>>
    /\ rateLimitMemorySweepIterator = NoIterator
    /\ rateLimitMemoryPruneScheduled = FALSE
    /\ rateLimitMemoryWasAboveThreshold = FALSE
    /\ rateLimitMemoryLastPruneAt = 0
    /\ rlEntries = <<>>
    /\ rlWrites = {}
    /\ kvRl \in [RlKeys -> {KvAbsent}]
    /\ checks = [c \in Checks |-> IdleCheck]
    /\ cleanups = <<>>

InitListCache ==
    /\ listMemoryCache = <<>>
    /\ listMemoryCacheEtag = NoEtag
    /\ listMemoryCacheLastFiltersCleared = TRUE
    /\ lastOp = NoOp

InitRouter ==
    /\ posts \in SUBSET Slugs
    /\ lastFetch = NoFetch

InitCatalog ==
    /\ sheet \in Sheets
    /\ catalog = NoCatalog
    /\ lastList = NoList
    /\ intersect \in {[NoIntersect EXCEPT !.a = a, !.b = b] : a, b \in SortedArrays}
    /\ validated \in {[NoValidation EXCEPT !.idx = idx] : idx \in StoredCatalogs}

\* the store may already hold pages, under one key or under every key, written
\* by any deployment: their embedded fingerprint need not be the one in the key
InitList ==
    /\ lists = [r \in Lists |-> IdleList]
    /\ kvList \in {[k \in ListKeys |-> NoListEntry]}
                  \cup {[k \in ListKeys |->
                            IF k = key THEN [val |-> PageOf(<<e, key[2]>>), exp |-> 0]
                            ELSE NoListEntry] : key \in ListKeys, e \in Etags}
                  \cup {[k \in ListKeys |-> [val |-> PageOf(<<e, k[2]>>), exp |-> 0]] :
                            e \in Etags}
    /\ listWrites = {}

Init ==
    /\ now = 0
    /\ logged = {}
    /\ InitLoader
    /\ InitRateLimiter
    /\ InitListCache
    /\ InitRouter
    /\ InitCatalog
    /\ InitList

\* each subsystem is explored with the others at rest in one configuration
AtRest == validated = NoValidation /\ kvList = [k \in ListKeys |-> NoListEntry]
Quiet == posts = {} /\ sheet = NoValues /\ intersect = NoIntersect /\ AtRest
InitLoaderOnly == Quiet /\ Init /\ RL_LIMIT = RlLimit
InitRateLimiterOnly == Quiet /\ Init /\ CACHE_TTL_SECONDS = CacheTtlSeconds
InitListCacheOnly == Quiet /\ Init /\ CACHE_TTL_SECONDS = CacheTtlSeconds /\ RL_LIMIT = RlLimit
InitRouterOnly ==
    /\ sheet = NoValues /\ intersect = NoIntersect /\ AtRest
    /\ Init /\ CACHE_TTL_SECONDS = CacheTtlSeconds /\ RL_LIMIT = RlLimit
InitCatalogOnly ==
    /\ posts = {} /\ intersect = NoIntersect /\ AtRest
    /\ Init /\ CACHE_TTL_SECONDS = CacheTtlSeconds /\ RL_LIMIT = RlLimit
InitIntersectOnly ==
    /\ posts = {} /\ sheet = NoValues /\ AtRest
    /\ Init /\ CACHE_TTL_SECONDS = CacheTtlSeconds /\ RL_LIMIT = RlLimit

\* invocations are numbered in the order they are made
NextCall == IF \E c \in Calls : calls[c].pc = "idle"
            THEN CHOOSE c \in Calls : calls[c].pc = "idle"
                                       /\ \A d \in Calls : d < c => calls[d].pc # "idle"
            ELSE 0

NextLoader ==
    \/ \E c \in Calls, force \in BOOLEAN : c = NextCall /\ getIndex(c, force)
    \/ \E c \in Calls : KvGetResolves(c)
    \/ \E c \in Calls : KvGetRejects(c)
    \/ \E r \in rebuilds, emptySheet \in BOOLEAN : BuildResolves(r, emptySheet)
    \/ \E r \in rebuilds : BuildRejects(r)
    \/ \E w \in kvIdxWrites : IndexWriteResolves(w)
    \/ \E w \in kvIdxWrites : IndexWriteRejects(w)
    \/ Tick

NextCheck == IF \E c \in Checks : checks[c].pc = "idle"
             THEN CHOOSE c \in Checks : checks[c].pc = "idle"
                                         /\ \A d \in Checks : d < c => checks[d].pc # "idle"
             ELSE 0

NextRateLimiter ==
    \/ \E c \in Checks, ip \in Identities : c = NextCheck /\ enforceRateLimit(c, ip)
    \/ \E c \in Checks : ColdLoadResolves(c)
    \/ \E c \in Checks : ColdLoadRejects(c)
    \/ \E w \in rlWrites : SyncWriteResolves(w)
    \/ \E w \in rlWrites : SyncWriteRejects(w)
    \/ Tick

NextListCache ==
    \/ \E etag \in Etags, filtersCleared \in BOOLEAN : SyncIndexState(etag, filtersCleared)
    \/ \E key \in ListKeys : CacheSet(key, PageOf(key), listCacheTtlMs)
    \/ \E key \in ListKeys : CacheGet(key, listCacheTtlMs)
    \/ Tick

\* a router that does not wait for the limiter's answer
AdmittedUnchecked(c) == TRUE

\* router.js 36-42: a handler runs once the limiter answered null
Admitted(c) == checks[c].pc = "done" /\ checks[c].res = "allowed"

\* router.js fetch: the admission check of request c, then its handler's getIndex
NextRequest ==
    \/ NextRateLimiter
    \/ \E c \in Calls, force \in BOOLEAN : c = NextCall /\ Admitted(c) /\ getIndex(c, force)
    \/ \E c \in Calls : KvGetResolves(c)
    \/ \E c \in Calls : KvGetRejects(c)
    \/ \E r \in rebuilds, emptySheet \in BOOLEAN : BuildResolves(r, emptySheet)
    \/ \E r \in rebuilds : BuildRejects(r)
    \/ \E w \in kvIdxWrites : IndexWriteResolves(w)
    \/ \E w \in kvIdxWrites : IndexWriteRejects(w)

InitRequest == Quiet /\ Init /\ CACHE_TTL_SECONDS = CacheTtlSeconds /\ RL_LIMIT = RlLimit

NextRouter ==
    \E method \in Methods, path \in Paths, limiter \in LimiterOutcomes,
       outcome \in HandlerOutcomes : Fetch(method, path, limiter, outcome)

SpecRouter == InitRouterOnly /\ [][NextRouter]_vars

NextCatalog ==
    \/ BuildIndex
    \/ \E qp \in ListParams : HandleList(qp)

SpecCatalog == InitCatalogOnly /\ [][NextCatalog]_vars

SpecIntersect == InitIntersectOnly /\ [][Intersect]_vars

SpecRequest == InitRequest /\ [][NextRequest]_vars

SpecLoader == InitLoaderOnly /\ [][NextLoader]_vars

SpecRateLimiter == InitRateLimiterOnly /\ [][NextRateLimiter]_vars

SpecListCache == InitListCacheOnly /\ [][NextListCache]_vars

\* ------------------------------------------------------------ catalog loader
IssuedCalls == {c \in Calls : calls[c].pc # "idle"}

\* C1: when every getIndex call made so far was non-forced, was made while the
\* in-process cache and the persistent store held no catalog, and has
\* resolved, exactly one upstream fetch was issued and all calls resolved to
\* the same Catalog.
C1_SingleFlightColdStart ==
    ( /\ IssuedCalls # {}
      /\ \A c \in IssuedCalls : ~calls[c].force /\ calls[c].cold /\ calls[c].pc = "done" )
    => /\ fetchCount = 1
       /\ \A c, d \in IssuedCalls : calls[c].res = calls[d].res

\* C2: at most one rebuild is in flight, the in-flight marker is set exactly
\* while it is, and every caller waiting for a rebuild waits for that one.
C2_AtMostOneRebuild ==
    /\ Cardinality(rebuilds) <= 1
    /\ (memoryIndexPromise # NoPromise) <=> (rebuilds # {})
    /\ \A c \in Calls : calls[c].pc = "await" => rebuilds = {calls[c].awaiting}

\* a forced and a non-forced caller share one in-flight rebuild: one of them
\* started it, the other found it in flight and joined it
C2_Witness ==
    \E c, d \in Calls :
        /\ calls[c].pc = "await" /\ calls[d].pc = "await"
        /\ calls[c].force /\ ~calls[d].force
        /\ calls[c].awaiting = calls[d].awaiting
        /\ rebuilds = {calls[c].awaiting}
        /\ (calls[c].started = NoPromise) # (calls[d].started = NoPromise)

\* -------------------------------------------------------------- rate limiter
AllowedFor(k) == {c \in Checks : checks[c].res = "allowed" /\ checks[c].key = k}
HeldCount(mem, objs, k) == objs[MapGet(mem, k)].count

\* C3: with a limit L > 0 and no count persisted by another process, at most
\* L checks of one (identity, window) are answered allowed, and a denial is a
\* 429 with a positive retry-after that leaves the count at or above L.
C3_AtMostLimitAllowed ==
    RL_LIMIT > 0 =>
        \A k \in RlKeys :
            /\ Cardinality(AllowedFor(k)) <= RL_LIMIT
            /\ \A c \in Checks :
                   (checks[c].res = "denied" /\ checks[c].key = k)
                   => checks[c].retryAfter > 0

\* C4: the count held for a bucket is the count its entry was seeded with at
\* cold load plus the number of checks answered allowed for that bucket.
C4_CountIsSeedPlusAllowed ==
    \A i \in 1..Len(rateLimitMemory) :
        LET e == rateLimitMemory[i]
        IN rlEntries[e.obj].count = checks[e.obj].kvCount + Cardinality(AllowedFor(e.key))

\* C5: the count held for an (identity, window) never decreases from one
\* step to the next.
C5_CountNeverDecreases ==
    [][\A k \in RlKeys :
          (MapGet(rateLimitMemory, k) # NoEntry /\ MapGet(rateLimitMemory', k) # NoEntry)
          => HeldCount(rateLimitMemory', rlEntries', k) >= HeldCount(rateLimitMemory, rlEntries, k)
      ]_vars

\* C6: a persistent-store failure never keeps an admission check from
\* answering allowed or denied.
C6_StoreFailureNeverBlocks ==
    \A c \in Checks : checks[c].pc = "done" => checks[c].res \in {"allowed", "denied"}

C8_TtlHitThenMiss ==
    [][ /\ lastOp'.op = "set" =>
              /\ listMemoryCache' # <<>>
              /\ listMemoryCache'[Len(listMemoryCache')] =
                     [key |-> lastOp'.key, value |-> PageOf(lastOp'.key),
                      insertedAt |-> now]
        /\ \A i \in 1..Len(listMemoryCache) :
              LET e == listMemoryCache[i]
              IN (lastOp'.op = "get" /\ lastOp'.key = e.key) =>
                    IF now - e.insertedAt <= listCacheTtlMs
                    THEN lastOp'.res = e.value /\ HasKey(listMemoryCache', e.key)
                    ELSE lastOp'.res = Miss /\ ~HasKey(listMemoryCache', e.key)
      ]_vars

\* a get found its entry older than the TTL, answered a miss and deleted it
C8_Witness == lastOp.op = "get" /\ lastOp.res = Miss /\ lastOp.removed = 1

\* C9: a set leaves the set key as the newest entry and the survivors are a
\* suffix of the previous insertion order (oldest dropped first), never more
\* than the capacity, an unexpired entry being dropped only at capacity; a
\* get leaves the order of the entries it does not delete unchanged.
C9_InsertionOrderEviction ==
    [][ /\ lastOp'.op = "set" =>
              LET old == CacheDelete(listMemoryCache, lastOp'.key)
                  new == listMemoryCache'
                  kept == SubSeq(new, 1, Len(new) - 1)
                  ndropped == Len(old) - Len(kept)
              IN /\ new # <<>> /\ new[Len(new)].key = lastOp'.key
                 /\ Len(new) <= MaxEntries
                 /\ ndropped >= 0
                 /\ kept = SubSeq(old, ndropped + 1, Len(old))
                 /\ (\E i \in 1..ndropped : now - old[i].insertedAt <= listCacheTtlMs)
                    => Len(new) = MaxEntries
        /\ lastOp'.op = "get" =>
              listMemoryCache' \in {listMemoryCache,
                                    CacheDelete(listMemoryCache, lastOp'.key)}
      ]_vars

\* at time 0, where nothing has expired, a set of a new key evicted an entry
C9_Witness ==
    /\ now = 0
    /\ lastOp.op = "set"
    /\ lastOp.removed = 1
    /\ Len(listMemoryCache) = MaxEntries

\* C10: a syncIndexState call that changes the tracked fingerprint empties
\* layer 1, and a get for a key layer 1 does not hold answers a miss.
C10_FingerprintInvalidation ==
    [][ /\ (lastOp'.op = "sync" /\ listMemoryCacheEtag' # listMemoryCacheEtag)
           => listMemoryCache' = <<>>
        /\ (lastOp'.op = "get" /\ ~HasKey(listMemoryCache, lastOp'.key))
           => lastOp'.res = Miss
      ]_vars

\* a sync that kept the filters active removed entries: the fingerprint changed
C10_Witness ==
    /\ lastOp.op = "sync"
    /\ lastOp.removed > 0
    /\ ~listMemoryCacheLastFiltersCleared

\* C11: a syncIndexState call that leaves the tracked fingerprint unchanged
\* empties layer 1 when it reports all filters cleared and the call before
\* it reported an active filter, and leaves layer 1 as it was on every other
\* filter transition.
C11_FilterResetClears ==
    [][ (lastOp'.op = "sync" /\ listMemoryCacheEtag' = listMemoryCacheEtag) =>
            IF listMemoryCacheLastFiltersCleared' /\ ~listMemoryCacheLastFiltersCleared
            THEN listMemoryCache' = <<>>
            ELSE listMemoryCache' = listMemoryCache
      ]_vars

\* with the fingerprint unchanged, a sync with filters cleared removed entries
C11_Witness ==
    /\ lastOp.op = "sync"
    /\ lastOp.key[1] = listMemoryCacheEtag
    /\ lastOp.removed > 0
    /\ listMemoryCacheLastFiltersCleared

\* C20: for each (identity, window) bucket at most one sync write is in
\* flight, and the entry a write in flight belongs to is marked as syncing.
C20_OneSyncWriteInFlight ==
    /\ \A k \in RlKeys : Cardinality({w \in rlWrites : w.key = k}) <= 1
    /\ \A w \in rlWrites : rlEntries[w.obj].syncScheduled

\* C12: with a catalog TTL <= 0, once a build has succeeded a non-forced
\* getIndex call returns the Catalog held in memory at once, with no upstream
\* fetch and no store write, and every write of the Catalog carries no expiry.
C12_CacheForever ==
    [][ CACHE_TTL_SECONDS <= 0 =>
          /\ \A w \in kvIdxWrites' : w.expirationTtl = 0
          /\ \A c \in Calls :
                ( /\ memoryIndex # NoIndex
                  /\ calls[c].pc = "idle" /\ calls'[c].pc # "idle"
                  /\ ~calls'[c].force )
                => /\ calls'[c].pc = "done" /\ calls'[c].res = memoryIndex
                   /\ fetchCount' = fetchCount
                   /\ kvIdxWrites' = kvIdxWrites
      ]_vars

\* ---------------------------------------------------------------- router
\* C19: the response to a HEAD request for /v1/post/<slug> has the status,
\* the content-type and the cache-control of the response to the GET request
\* for the same path, reaches the same handler, and has an empty body.
C19_HeadMirrorsGet ==
    (lastFetch.method = "HEAD" /\ lastFetch.path.kind = "post") =>
        LET get == fetch("GET", lastFetch.path, lastFetch.limiter, lastFetch.outcome, posts)
        IN /\ lastFetch.resp.status = get.status
           /\ lastFetch.resp.contentType = get.contentType
           /\ lastFetch.resp.cacheControl = get.cacheControl
           /\ lastFetch.resp.called = get.called
           /\ lastFetch.resp.body = "empty"

\* C15: for strictly ascending, duplicate-free arrays A and B,
\* intersectSortedArrays(A, B) holds exactly the members common to A and B, in
\* strictly ascending order.
C15_IntersectIsSetIntersection ==
    intersect.done =>
        /\ Range(intersect.result) = Range(intersect.a) \cap Range(intersect.b)
        /\ \A n \in 2..Len(intersect.result) : intersect.result[n - 1] < intersect.result[n]
C15_Witness ==
    /\ intersect.done
    /\ Len(intersect.result) >= 2
    /\ Len(intersect.result) < Len(intersect.a)
    /\ Len(intersect.result) < Len(intersect.b)
    /\ intersect.a[1] # intersect.b[1]

\* C13: two built Catalogs have different fingerprints exactly when they differ
\* in the number of records or in a field the list or item payload exposes
\* (the display name included).
C13_FingerprintTracksVisibleContent ==
    catalog # NoCatalog =>
        \A other \in Sheets :
            LET built == buildIndexFromSheet(other)
                visible(c) == [p \in 1..Len(c.rows) |-> serializeRow(c.rows[p])]
            IN (catalog.etag # built.etag) <=> (visible(catalog) # visible(built))

\* C14: in a built Catalog every value list of the category, tag, mood, token,
\* prefix and n-gram indexes is strictly ascending, and every position p in it
\* satisfies 0 <= p < number of records.
C14_IndexListsSortedUniqueInRange ==
    \A map \in {catalog._categoryIndex, catalog._tagIndex, catalog._moodIndex,
                catalog._tokenIndex, catalog._tokenPrefixIndex, catalog._tokenNgramIndex} :
        \A k \in DOMAIN map :
            /\ \A n \in 2..Len(map[k]) : map[k][n - 1] < map[k][n]
            /\ \A n \in 1..Len(map[k]) : 0 <= map[k][n] /\ map[k][n] < Len(catalog.rows)
\* a row pushed twice under one tag, and rows the date sort moved past each other
C14_Witness ==
    /\ Len(catalog.rows) = 2
    /\ catalog.rows[1]._row > catalog.rows[2]._row
    /\ \E k \in DOMAIN catalog._tagIndex : Len(catalog._tagIndex[k]) = 2
    /\ \E i \in 1..2 : \E n \in 1..Len(catalog.rows[i].tags) :
          \E m \in 1..Len(catalog.rows[i].tags) : n # m /\ catalog.rows[i].tags[n] = catalog.rows[i].tags[m]

\* C16: a free-text query of one token that is a key of the exact token index
\* returns exactly the records whose lowercased name, tags or moods contain the
\* token as a maximal alphanumeric run, in Catalog order.
C16_ExactTokenQuery ==
    LET tokens == tokenizeQuery(trim(lastList.qp.q))
        token == tokens[1]
        alnum(c) == c \in Range(LowerChars) \cup Range(DigitChars)
        hasRun(value) ==
            LET s == toLowerCase(value)
            IN \E i \in 1..Len(s) :
                  LET end == i + Len(token) - 1
                  IN /\ end <= Len(s)
                     /\ SubSeq(s, i, end) = token
                     /\ i = 1 \/ ~alnum(s[i - 1])
                     /\ end = Len(s) \/ ~alnum(s[end + 1])
        matches(row) ==
            \/ hasRun(row.name)
            \/ \E n \in 1..Len(row.tags) : hasRun(row.tags[n])
            \/ \E n \in 1..Len(row.mood_labels) : hasRun(row.mood_labels[n])
        expected == sortAscending({p \in 1..Len(catalog.rows) : matches(catalog.rows[p])})
    IN ( /\ lastList.served
         /\ lastList.qp.tag = <<>> /\ lastList.qp.category = <<>> /\ lastList.qp.mood = <<>>
         /\ Len(tokens) = 1
         /\ token \in DOMAIN catalog._tokenIndex )
       => /\ lastList.result.total = Len(expected)
          /\ lastList.result.posts
                = [n \in 1..Len(expected) |-> serializeRow(catalog.rows[expected[n]])]
\* the query citrus over the records Tiki Time (tropical) and Classic Sour (citrus)
C16_Witness ==
    /\ lastList.served
    /\ lastList.qp.tag = <<>> /\ lastList.qp.category = <<>> /\ lastList.qp.mood = <<>>
    /\ lastList.qp.q = <<"c", "i", "t", "r", "u", "s">>
    /\ Len(catalog.rows) = 2
    /\ lastList.result.total = 1
    /\ lastList.result.posts[1].slug = slugify(<<"C", "l", "a", "s", "s", "i", "c", " ", "S", "o", "u", "r">>)
    /\ lastList.result.posts[1] = serializeRow(catalog.rows[2])

\* C17 as stated: the categories list is exactly the distinct categories of the
\* matching records in order of first appearance, excluding every category
\* whose canonical key is a known placeholder.
C17_DistinctCategoriesMinusPlaceholders ==
    lastList.served =>
        LET posts_ == lastList.result.posts
            keep(n) ==
                /\ posts_[n].category # <<>>
                /\ normalizeCategoryKey(posts_[n].category) \notin CATEGORY_PLACEHOLDER_MAP
                /\ \A m \in 1..(n - 1) : posts_[m].category # posts_[n].category
            kept == sortAscending({n \in 1..Len(posts_) : keep(n)})
        IN lastList.result.categories = [j \in 1..Len(kept) |-> posts_[kept[j]].category]

\* C17, amended: the categories list holds, in order of first appearance, the
\* category of the first matching record of each canonical key, leaving out
\* the categories whose canonical key is empty or a known placeholder.
C17_DistinctCanonicalCategories ==
    lastList.served =>
        LET posts_ == lastList.result.posts
            key(n) == normalizeCategoryKey(posts_[n].category)
            keep(n) ==
                /\ key(n) # <<>>
                /\ key(n) \notin CATEGORY_PLACEHOLDER_MAP
                /\ \A m \in 1..(n - 1) : key(m) # key(n)
            kept == sortAscending({n \in 1..Len(posts_) : keep(n)})
        IN lastList.result.categories = [j \in 1..Len(kept) |-> posts_[kept[j]].category]
\* a placeholder category among the matching records, next to a real one
C17_Witness ==
    /\ lastList.served
    /\ lastList.result.total = 2
    /\ \E n \in 1..2 :
          normalizeCategoryKey(lastList.result.posts[n].category) \in CATEGORY_PLACEHOLDER_MAP
    /\ Len(lastList.result.categories) = 1

\* C18: the response of handleList includes a moods list holding the distinct
\* mood labels of the matching records in order of first appearance.
C18_ResponseHasMoods ==
    lastList.served =>
        /\ "moods" \in DOMAIN lastList.result
        /\ LET posts_ == lastList.result.posts
               RECURSIVE labels(_)
               labels(n) == IF n > Len(posts_) THEN <<>>
                            ELSE posts_[n].mood_labels \o labels(n + 1)
           IN lastList.result.moods = setAdd(<<>>, labels(1))

\* ------------------------------------------------------ loader, continued
\* C22: a non-forced getIndex made while the Catalog in memory is unexpired
\* and structurally valid returns that Catalog in the same step: no store
\* read, no upstream fetch, no suspension point.
C22_FreshMemoryServedAtOnce ==
    [][ \A c \in Calls :
          ( /\ calls[c].pc = "idle" /\ calls'[c].pc # "idle" /\ ~calls'[c].force
            /\ memoryIndex # NoIndex /\ memoryIndex.maps
            /\ memoryIndexExpiry # 0 /\ now < memoryIndexExpiry )
          => /\ calls'[c].pc = "done"
             /\ calls'[c].res = memoryIndex
             /\ calls'[c].awaiting = NoPromise
             /\ fetchCount' = fetchCount
             /\ memoryIndex' = memoryIndex /\ memoryIndexExpiry' = memoryIndexExpiry
      ]_vars
\* a second call served from memory while the store still holds nothing
C22_Witness ==
    \E c, d \in Calls :
        /\ calls[d].pc = "done" /\ calls[d].started # NoPromise
        /\ calls[c].pc = "done" /\ ~calls[c].force /\ calls[c].awaiting = NoPromise
        /\ calls[c].res = memoryIndex /\ memoryIndex.maps
        /\ kvIdx = NoKvEntry
        /\ fetchCount = 1

\* C23: a non-forced getIndex made when the Catalog in memory is absent or
\* expired reads the store; when the read resolves, the call returns the
\* persisted Catalog without an upstream fetch and installs it in memory with
\* a fresh expiry exactly when the store holds a Catalog that passes the
\* structural validity check; any other value leads to a rebuild.
C23_StoreAdoptionIffValid ==
    [][ \A c \in Calls :
          /\ ( /\ calls[c].pc = "idle" /\ calls'[c].pc # "idle" /\ ~calls'[c].force
               /\ (memoryIndex = NoIndex \/ ~(now < memoryIndexExpiry)) )
             => calls'[c].pc = "kvget" /\ fetchCount' = fetchCount
          /\ (calls[c].pc = "kvget" /\ calls'[c].pc \notin {"kvget", "error"})
             => IF kvIdx.val # NoIndex /\ kvIdx.val.maps
                THEN /\ calls'[c].pc = "done" /\ calls'[c].res = kvIdx.val
                     /\ memoryIndex' = kvIdx.val
                     /\ memoryIndexExpiry' = plusMs(now, indexTtlMs(CACHE_TTL_SECONDS))
                     /\ fetchCount' = fetchCount
                ELSE /\ calls'[c].pc = "await"
                     /\ rebuilds' = {calls'[c].awaiting}
                     /\ memoryIndex' = memoryIndex
      ]_vars
\* the Catalog in memory expired and the persisted one was adopted
C23_Witness ==
    \E c \in Calls :
        /\ calls[c].pc = "done" /\ ~calls[c].force /\ calls[c].awaiting = NoPromise
        /\ now > 0
        /\ calls[c].res = kvIdx.val /\ memoryIndex = kvIdx.val
        /\ memoryIndexExpiry = plusMs(now, indexTtlMs(CACHE_TTL_SECONDS))
        /\ fetchCount = 1

\* C24: a getIndex call with forceRebuild = true performs no store read; it
\* starts a rebuild or awaits the one in flight, and what it returns is the
\* Catalog that rebuild produced.
C24_ForceAlwaysRebuilds ==
    [][ \A c \in Calls :
          /\ (calls[c].pc = "idle" /\ calls'[c].pc # "idle" /\ calls'[c].force)
             => /\ calls'[c].pc = "await"
                /\ rebuilds' = {calls'[c].awaiting}
                /\ IF memoryIndexPromise = NoPromise
                   THEN fetchCount' = fetchCount + 1 /\ calls'[c].started = fetchCount'
                   ELSE fetchCount' = fetchCount /\ calls'[c].awaiting = memoryIndexPromise
          /\ (calls[c].force /\ calls[c].pc # "done" /\ calls'[c].pc = "done")
             => /\ calls[c].pc = "await"
                /\ calls[c].awaiting \in rebuilds
                /\ calls'[c].res.id = calls[c].awaiting
      ]_vars
\* a forced call waiting for its rebuild while the Catalog in memory is fresh
C24_Witness ==
    \E c \in Calls :
        /\ calls[c].force /\ calls[c].pc = "await" /\ calls[c].started # NoPromise
        /\ memoryIndex # NoIndex /\ memoryIndex.maps
        /\ memoryIndexExpiry # 0 /\ now < memoryIndexExpiry

\* C26: after getIndex has built a Catalog from an empty sheet, a later
\* non-forced getIndex within the TTL returns that Catalog from memory
\* without another upstream fetch.
C26_EmptyCatalogServedFromMemory ==
    [][ \A c \in Calls :
          ( /\ calls[c].pc = "idle" /\ calls'[c].pc # "idle" /\ ~calls'[c].force
            /\ memoryIndex # NoIndex /\ ~memoryIndex.maps
            /\ memoryIndexExpiry # 0 /\ now < memoryIndexExpiry )
          => /\ calls'[c].pc = "done"
             /\ calls'[c].res = memoryIndex
             /\ fetchCount' = fetchCount
      ]_vars

\* ---------------------------------------------------------------------------
\* rate limiter, continued: an isolate that already admitted requests
\* ---------------------------------------------------------------------------

MaxSeed == 4

\* the entry object of the bucket the isolate held before the first modelled check
SeedId == NChecks + 1

\* rateLimit.js 143-231 run k times at time 0 under RL_LIMIT = 0 (unlimited): one
\* bucket holding count k whose store value could not be parsed on the cold load
\* (kvCount 0, hasKvValue true, lines 161-169), so that no sync has been due so
\* far (lines 195-199); the sweep cursor has passed the single key once a second
\* check has swept (lines 63-99)
SeededLimiter(k) ==
    /\ RL_LIMIT = 0
    /\ rateLimitMemory = <<[key |-> mapKey("1.1.1.1", 0), obj |-> SeedId]>>
    /\ rateLimitMemorySweepIterator = (IF k >= 2 THEN 1 ELSE NoIterator)
    /\ rateLimitMemoryPruneScheduled = FALSE
    /\ rateLimitMemoryWasAboveThreshold = FALSE
    /\ rateLimitMemoryLastPruneAt = 0
    /\ rlEntries = [id \in {SeedId} |->
                      [count |-> k, expiresAt |-> bucketExpiresAt(0), syncedCount |-> 0,
                       hasKvValue |-> TRUE, syncScheduled |-> FALSE,
                       needsSyncAfterCurrent |-> FALSE]]
    /\ rlWrites = {}
    /\ kvRl = [key \in RlKeys |-> IF key = mapKey("1.1.1.1", 0) THEN KvJunk ELSE KvAbsent]
    /\ checks = [c \in Checks |-> IdleCheck]
    /\ cleanups = <<>>

InitSync ==
    /\ Quiet /\ now = 0 /\ logged = {}
    /\ CACHE_TTL_SECONDS = CacheTtlSeconds /\ InitLoader
    /\ InitListCache /\ InitRouter /\ InitCatalog /\ InitList
    /\ \/ InitRateLimiter
       \/ \E k \in 1..MaxSeed : k < RATE_LIMIT_SYNC_STEP /\ SeededLimiter(k)

SpecSync == InitSync /\ [][NextRateLimiter]_vars

\* C21: on every admitted check a store sync is due exactly when the bucket's
\* count exceeds the last synced count by RATE_LIMIT_SYNC_STEP or more, or the
\* limit is positive and the count reached max(1, limit - 1), or the store held
\* no value and this is the first request of the bucket; when due and the bucket
\* has no write in flight a write of the current count is issued, when due and a
\* write is in flight only the follow-up flag is raised, and when not due no
\* write is issued and neither flag changes
C21_SyncDueExactlyOnThreeConditions ==
    [][ \A c \in Checks :
          (checks[c].res # "allowed" /\ checks'[c].res = "allowed") =>
            LET key == checks'[c].key
                id == MapGet(rateLimitMemory', key)
                e == rlEntries'[id]
                cold == checks[c].pc = "kvget"
                wasScheduled == ~cold /\ rlEntries[id].syncScheduled
                wasNeeded == ~cold /\ rlEntries[id].needsSyncAfterCurrent
                due == \/ e.count - e.syncedCount >= RATE_LIMIT_SYNC_STEP
                       \/ (RL_LIMIT > 0 /\ e.count >= Max(1, RL_LIMIT - 1))
                       \/ (~e.hasKvValue /\ e.count = 1)
                issued == rlWrites' \ rlWrites
            IN /\ id # NoEntry
               /\ IF due /\ ~wasScheduled
                  THEN /\ issued = {[obj |-> id, key |-> key, val |-> e.count, by |-> c]}
                       /\ e.syncScheduled /\ ~e.needsSyncAfterCurrent
                  ELSE IF due
                  THEN /\ issued = {}
                       /\ e.syncScheduled /\ e.needsSyncAfterCurrent
                  ELSE /\ issued = {}
                       /\ e.syncScheduled = wasScheduled
                       /\ e.needsSyncAfterCurrent = wasNeeded ]_vars

\* an unlimited bucket whose store value exists syncs because five requests
\* went unsynced
C21_Witness ==
    \E w \in rlWrites :
        /\ RL_LIMIT = 0
        /\ checks[w.by].res = "allowed"
        /\ w.obj \in DOMAIN rlEntries
        /\ rlEntries[w.obj].hasKvValue
        /\ rlEntries[w.obj].syncedCount = 0
        /\ w.val = RATE_LIMIT_SYNC_STEP

\* ---------------------------------------------------------------------------
\* catalog, continued
\* ---------------------------------------------------------------------------

\* C27: on the indexed path the query returns, in ascending order, exactly the
\* positions that lie in the position list of every active predicate (category,
\* tag, mood and each query token's candidate set): hence nothing as soon as one
\* active predicate has an empty list, and every position 0..n-1 when no
\* predicate is active; the served page lists those rows
C27_IndexedQueryIsIntersection ==
    (lastList.served /\ hasPrecomputedMaps(catalog)) =>
        LET q == trim(lastList.qp.q)
            tag == trim(lastList.qp.tag)
            cat == trim(lastList.qp.category)
            mood == trim(lastList.qp.mood)
            tokens == tokenizeQuery(q)
            active == (IF cat = <<>> THEN {}
                       ELSE {Range(lookup(catalog._categoryIndex, toLowerCase(cat)))})
                      \cup (IF tag = <<>> THEN {}
                            ELSE {Range(lookup(catalog._tagIndex, toLowerCase(tag)))})
                      \cup (IF mood = <<>> THEN {}
                            ELSE {Range(lookup(catalog._moodIndex, toLowerCase(mood)))})
                      \cup {Range(lookupTokenMatches(catalog, tokens[n])) : n \in 1..Len(tokens)}
            expected == sortAscending({p \in 0..(Len(catalog.rows) - 1) :
                                          \A list \in active : p \in list})
        IN /\ filterIndex(catalog, q, tag, cat, mood) = expected
           /\ lastList.result.total = Len(expected)
           /\ lastList.result.posts =
                  [n \in 1..Len(expected) |-> serializeRow(catalog.rows[expected[n] + 1])]

\* a free-text token and a tag are both active and select some rows but not all
C27_Witness ==
    /\ lastList.served /\ hasPrecomputedMaps(catalog)
    /\ tokenizeQuery(trim(lastList.qp.q)) # <<>>
    /\ trim(lastList.qp.tag) # <<>>
    /\ lastList.result.total > 0
    /\ lastList.result.total < Len(catalog.rows)

InitValidateOnly ==
    /\ posts = {} /\ sheet = NoValues /\ intersect = NoIntersect
    /\ kvList = [k \in ListKeys |-> NoListEntry]
    /\ Init /\ CACHE_TTL_SECONDS = CacheTtlSeconds /\ RL_LIMIT = RlLimit

SpecValidate == InitValidateOnly /\ [][ValidateStored]_vars

\* C25: the structural validity check accepts a stored Catalog only if each of
\* the category, tag, mood and token indexes is present with every value list
\* strictly ascending (no duplicate entries) and made of non-negative integers
\* only, and the identifier index is present with integer values
C25_AcceptedMeansStrictlyAscendingNonNegative ==
    validated.verdict = "accepted" =>
        /\ \A f \in {"_categoryIndex", "_tagIndex", "_moodIndex", "_tokenIndex"} :
              /\ f \in DOMAIN validated.idx
              /\ \A k \in DOMAIN validated.idx[f] :
                    LET list == validated.idx[f][k]
                    IN /\ \A n \in 1..Len(list) : list[n] # NotInteger /\ list[n] >= 0
                       /\ \A n \in 2..Len(list) : list[n - 1] < list[n]
        /\ "_slugIndex" \in DOMAIN validated.idx
        /\ \A s \in DOMAIN validated.idx["_slugIndex"] :
              validated.idx["_slugIndex"][s] # NotInteger

\* ---------------------------------------------------------------------------
\* list cache layers
\* ---------------------------------------------------------------------------

InitListOnly ==
    /\ posts = {} /\ sheet = NoValues /\ intersect = NoIntersect /\ validated = NoValidation
    /\ Init /\ CACHE_TTL_SECONDS = CacheTtlSeconds /\ RL_LIMIT = RlLimit

NextList ==
    \/ \E r \in Lists, etag \in Etags, param \in 1..NParams, ifE \in BOOLEAN :
           /\ \A d \in Lists : d < r => lists[d].pc # "idle"
           /\ handleList(r, etag, param, ifE)
    \/ \E r \in Lists : ListGetResolves(r)
    \/ \E r \in Lists : ListGetRejects(r)
    \/ \E w \in listWrites : ListWriteResolves(w)
    \/ \E w \in listWrites : ListWriteRejects(w)
    \/ Tick

SpecList == InitListOnly /\ [][NextList]_vars

\* C28: when a list request that missed layer 1 gets the answer of its layer-2
\* read, the stored page is adopted into layer 1 and served only if there is
\* one and its embedded fingerprint equals the Catalog fingerprint of the
\* request; otherwise the page is recomputed, stored in layer 1 and a
\* background write of it to layer 2 is started
C28_StoredPageAdoptedOnlyOnFingerprintMatch ==
    [][ \A r \in Lists :
          (lists[r].pc = "kvget" /\ lists'[r].pc = "done") =>
            LET key == lists[r].key
                stored == kvListRead(kvList[key], now)
                inLayer1(page) == \E i \in 1..Len(listMemoryCache') :
                                      /\ listMemoryCache'[i].key = key
                                      /\ listMemoryCache'[i].value = page
                                      /\ listMemoryCache'[i].insertedAt = now
            IN IF stored # Miss /\ stored[2][1] = lists[r].etag
               THEN /\ lists'[r].via = "store" /\ lists'[r].res = stored
                    /\ inLayer1(stored)
                    /\ listWrites' = listWrites
               ELSE /\ lists'[r].via = "computed" /\ lists'[r].res = PageOf(key)
                    /\ inLayer1(PageOf(key))
                    /\ \E w \in listWrites' \ listWrites :
                          w.key = key /\ w.val = PageOf(key)
                    /\ kvList' = kvList ]_vars

\* a stored page with the request's fingerprint was served from layer 2 and sits
\* in layer 1, while another request found a page of a different fingerprint
\* under its key and recomputed
C28_Witness ==
    \E r, q \in Lists :
        /\ lists[r].pc = "done" /\ lists[r].via = "store"
        /\ \E i \in 1..Len(listMemoryCache) :
              listMemoryCache[i].key = lists[r].key /\ listMemoryCache[i].value = lists[r].res
        /\ lists[q].pc = "done" /\ lists[q].via = "computed"
        /\ kvList[lists[q].key].val # Miss
        /\ kvList[lists[q].key].val[2][1] # lists[q].etag

\* ---------------------------------------------------------------------------
\* rate limiter, continued: the sweep over a large bucket map
\* ---------------------------------------------------------------------------

MaxBuckets == 22

\* the m-th other identity, and the bucket map after the first m of them each
\* made one request at time 0 (their first sync write has landed)
OtherIdentity(n) == ToString(n)
OtherBuckets(m) == [n \in 1..m |-> [key |-> mapKey(OtherIdentity(n), 0), obj |-> NChecks + n]]
OtherEntries(m) ==
    [id \in {NChecks + n : n \in 1..m} |->
        [count |-> 1, expiresAt |-> bucketExpiresAt(0), syncedCount |-> 1,
         hasKvValue |-> TRUE, syncScheduled |-> FALSE, needsSyncAfterCurrent |-> FALSE]]

\* lines 152 and 63-99: the cursor those m requests left behind; the n-th swept
\* the n - 1 buckets before it
RECURSIVE cursorAfter(_)
cursorAfter(m) ==
    IF m = 0 THEN NoIterator
    ELSE LET swept(prev) == pruneRateLimitMemory(OtherBuckets(m - 1), prev,
                                                 OtherEntries(m - 1), 0,
                                                 RATE_LIMIT_MEMORY_PRUNE_STEP).iter
         IN CHOOSE cursor \in {swept(prev) : prev \in {cursorAfter(m - 1)}} : TRUE

\* the map sizes explored: small maps, and maps around the size of one sweep
SweepSizes == (0..2) \cup ((RATE_LIMIT_MEMORY_PRUNE_STEP - 1)..MaxBuckets)

InitSweep ==
    /\ Quiet /\ now = 0 /\ logged = {}
    /\ CACHE_TTL_SECONDS = CacheTtlSeconds /\ InitLoader
    /\ InitListCache /\ InitRouter /\ InitCatalog /\ InitList
    /\ RL_LIMIT = RlLimit
    /\ \E m \in SweepSizes :
          /\ rateLimitMemory = OtherBuckets(m)
          /\ rateLimitMemorySweepIterator = cursorAfter(m)
          /\ rlEntries = OtherEntries(m)
    /\ rateLimitMemoryPruneScheduled = FALSE
    /\ rateLimitMemoryWasAboveThreshold = FALSE
    /\ rateLimitMemoryLastPruneAt = 0
    /\ rlWrites = {}
    /\ kvRl \in [RlKeys -> {KvAbsent}]
    /\ checks = [c \in Checks |-> IdleCheck]
    /\ cleanups = <<>>

SpecSweep == InitSweep /\ [][NextRateLimiter]_vars

InitSweepLargest ==
    /\ InitSweep
    /\ Len(rateLimitMemory) >= MaxBuckets - 1

\* the step in which the next admission check arrives, told by its effect on
\* checks: of the steps of NextRateLimiter only enforceRateLimit(NextCheck, ip)
\* takes a check out of "idle", and it can whenever a check is idle
CheckArrives ==
    \E c \in Checks, ip \in Identities, pc \in {"kvget", "done"},
       res \in {"none", "allowed", "denied"}, t \in {0, now}, retryAfter \in 0..RlWindowSec :
        /\ c = NextCheck
        /\ checks' = [checks EXCEPT ![c] =
                          [pc |-> pc, key |-> mapKey(ip, now), t |-> t, res |-> res,
                           kvCount |-> -1, retryAfter |-> retryAfter]]

\* further admission checks keep arriving while any is left to arrive
SpecSweepFair == InitSweepLargest /\ [][NextRateLimiter]_vars /\ WF_checks(CheckArrives)

\* the admission checks that sweep every bucket of the largest map once:
\* each examines RATE_LIMIT_MEMORY_PRUNE_STEP buckets
SweepChecksNeeded == ((MaxBuckets + NChecks) \div RATE_LIMIT_MEMORY_PRUNE_STEP) + 1

\* C30: every bucket whose window has elapsed is eventually removed: once the
\* window ending at time T has elapsed, and as long as enough further
\* admission checks arrive for the cursor to go round the map, the map
\* eventually holds no bucket whose recorded expiry is T or earlier
C30_ExpiredBucketsEventuallyPruned ==
    LET T == bucketExpiresAt(0)
    IN  ( /\ now >= T
          /\ Cardinality({c \in Checks : checks[c].pc = "idle"}) >= SweepChecksNeeded )
        ~> (\A i \in 1..Len(rateLimitMemory) :
                rlEntries[rateLimitMemory[i].obj].expiresAt > T)

\* the last check has arrived, and the map that held more expired buckets than
\* one sweep examines holds none: only the bucket of the current window
C30_Witness ==
    /\ \A c \in Checks : checks[c].pc # "idle"
    /\ now >= bucketExpiresAt(0)
    /\ Len(rateLimitMemory) > 0
    /\ \A i \in 1..Len(rateLimitMemory) :
          rlEntries[rateLimitMemory[i].obj].expiresAt > now

\* ---------------------------------------------------------------------------
\* rate limiter, continued: the larger sweep above the threshold
\* ---------------------------------------------------------------------------

\* the limiter of a process that has served no request (lines 57-61)
FreshLimiter ==
    [mem |-> <<>>, iter |-> NoIterator, objs |-> <<>>,
     fl |-> [scheduled |-> FALSE, wasAbove |-> FALSE, lastPruneAt |-> 0],
     ran |-> <<>>]

\* lines 143-230 for the first request of identity n in the window of time t,
\* the store holding no count for it, and its first sync write landed
\* (lines 205-209): the sweep of line 152, the new bucket, the larger sweep
admitNew(s, n, t) ==
    LET id == NChecks + n
        entry == [count |-> 1, expiresAt |-> bucketExpiresAt(t), syncedCount |-> 1,
                  hasKvValue |-> TRUE, syncScheduled |-> FALSE,
                  needsSyncAfterCurrent |-> FALSE]
        objs == [i \in DOMAIN s.objs \cup {id} |-> IF i = id THEN entry ELSE s.objs[i]]
    IN CHOOSE after \in
           {[mem |-> sp.mem, iter |-> sp.iter, objs |-> Reachable(objs, sp.mem, {}),
             fl |-> sp.fl, ran |-> s.ran \o sp.ran] :
               sp \in {scheduleRateLimitPrune(
                           MapSet(p.mem, mapKey(OtherIdentity(n), t), id),
                           p.iter, objs, t, t, s.fl) :
                          p \in {pruneRateLimitMemory(s.mem, s.iter, s.objs, t,
                                                      RATE_LIMIT_MEMORY_PRUNE_STEP)}}} : TRUE

\* the identities a..b make their first request at time t, one after the other
RECURSIVE admitRange(_, _, _, _)
admitRange(s, a, b, t) ==
    IF a > b THEN s
    ELSE IF a = b THEN CHOOSE r \in {admitNew(x, a, t) : x \in {s}} : TRUE
    ELSE LET mid == (a + b) \div 2
         IN CHOOSE r \in {admitRange(x, mid + 1, b, t) : x \in {admitRange(s, a, mid, t)}} :
                TRUE

\* the window before the last three, in which the process was first busy
LongAgo == 0 - 3 * RlWindowSec * 1000

SweepBatch == RATE_LIMIT_MEMORY_PRUNE_STEP * 4

\* the limiter at time 0 after four histories of one process:
\*  1: RATE_LIMIT_MEMORY_PRUNE_THRESHOLD identities made a request at time 0;
\*  2: one batch of identities more than the threshold did at LongAgo;
\*  3: as 2, and at time 0 as many other identities as the threshold holds did;
\*  4: more identities than the threshold and five batches hold did at LongAgo
LimiterAfter(history) ==
    LET T == RATE_LIMIT_MEMORY_PRUNE_THRESHOLD
        busy == admitRange(FreshLimiter, 1, T + SweepBatch \div 4 + 1, LongAgo)
    IN CASE history = 1 -> admitRange(FreshLimiter, 1, T, 0)
         [] history = 2 -> busy
         [] history = 3 -> admitRange(busy, T + SweepBatch, 2 * T + SweepBatch - 1, 0)
         [] history = 4 ->
                admitRange(FreshLimiter, 1,
                           T + RATE_LIMIT_MEMORY_PRUNE_MAX_BATCHES * SweepBatch
                             + RATE_LIMIT_MEMORY_PRUNE_STEP + 4, LongAgo)

InitPrune ==
    /\ Quiet /\ now = 0 /\ logged = {}
    /\ CACHE_TTL_SECONDS = CacheTtlSeconds /\ InitLoader
    /\ InitListCache /\ InitRouter /\ InitCatalog /\ InitList
    /\ RL_LIMIT = RlLimit
    /\ \E history \in 1..4 : \E h \in {LimiterAfter(history)} :
          /\ rateLimitMemory = h.mem
          /\ rateLimitMemorySweepIterator = h.iter
          /\ rlEntries = h.objs
          /\ rateLimitMemoryPruneScheduled = h.fl.scheduled
          /\ rateLimitMemoryWasAboveThreshold = h.fl.wasAbove
          /\ rateLimitMemoryLastPruneAt = h.fl.lastPruneAt
          /\ cleanups = h.ran
    /\ rlWrites = {}
    /\ kvRl \in [RlKeys -> {KvAbsent}]
    /\ checks = [c \in Checks |-> IdleCheck]

\* the requests of identity 1.1.1.1 that follow the history
PruneChecks == 2

NextPrune ==
    \/ \E c \in 1..PruneChecks, ip \in Identities : c = NextCheck /\ enforceRateLimit(c, ip)
    \/ \E c \in Checks : ColdLoadResolves(c)
    \/ \E c \in Checks : ColdLoadRejects(c)
    \/ \E w \in rlWrites : SyncWriteResolves(w)
    \/ \E w \in rlWrites : SyncWriteRejects(w)
    \/ Tick

SpecPrune == InitPrune /\ [][NextPrune]_vars

\* C31: the larger sweep starts only above the threshold, never while another
\* is in flight, and runs at most RATE_LIMIT_MEMORY_PRUNE_MAX_BATCHES batches,
\* stopping earlier once the bucket count is at or under the threshold or a
\* batch removed nothing; and two sweeps never start less than
\* RATE_LIMIT_MEMORY_PRUNE_MIN_INTERVAL ms apart
C31_LargerSweepRateLimited ==
    /\ ~rateLimitMemoryPruneScheduled
    /\ \A i \in 1..Len(cleanups) :
          LET run == cleanups[i]
          IN /\ run.from > RATE_LIMIT_MEMORY_PRUNE_THRESHOLD
             /\ run.batches \in 1..RATE_LIMIT_MEMORY_PRUNE_MAX_BATCHES
             /\ run.batches < RATE_LIMIT_MEMORY_PRUNE_MAX_BATCHES
                => (run.size <= RATE_LIMIT_MEMORY_PRUNE_THRESHOLD \/ run.pruned = 0)
             /\ run.batches > 1
                => run.size + run.pruned > RATE_LIMIT_MEMORY_PRUNE_THRESHOLD
    /\ \A i, j \in 1..Len(cleanups) :
          i < j => cleanups[j].at - cleanups[i].at >= RATE_LIMIT_MEMORY_PRUNE_MIN_INTERVAL

\* ---------------------------------------------------------------------------
\* rate limiter, continued: counts persisted by another process
\* ---------------------------------------------------------------------------

\* the store holds, for at most one window of the identity, a count another
\* process wrote (1..RlLimit + 1) or a value that is no number
InitColdLoad ==
    /\ Quiet /\ now = 0 /\ logged = {}
    /\ CACHE_TTL_SECONDS = CacheTtlSeconds /\ InitLoader
    /\ InitListCache /\ InitRouter /\ InitCatalog /\ InitList
    /\ RL_LIMIT \in 0..RlLimit
    /\ rateLimitMemory = <<>>
    /\ rateLimitMemorySweepIterator = NoIterator
    /\ rateLimitMemoryPruneScheduled = FALSE
    /\ rateLimitMemoryWasAboveThreshold = FALSE
    /\ rateLimitMemoryLastPruneAt = 0
    /\ rlEntries = <<>>
    /\ rlWrites = {}
    /\ kvRl \in {[k \in RlKeys |-> IF k = key THEN v ELSE KvAbsent] :
                    key \in RlKeys, v \in {KvAbsent, KvJunk} \cup (1..(RlLimit + 1))}
    /\ checks = [c \in Checks |-> IdleCheck]
    /\ cleanups = <<>>

SpecColdLoad == InitColdLoad /\ [][NextRateLimiter]_vars

\* C32: the step that creates a bucket sets its last-synced count to the count
\* the store holds for that window (zero when the store holds nothing or no
\* number) and its local count to the same value, to which the request adds
\* one if it is admitted; when the limit is positive and the persisted count
\* has reached it, that first check is denied and the count stays as persisted
C32_BucketSeededFromPersistedCount ==
    [][ \A c \in Checks :
          (checks[c].pc = "kvget" /\ checks'[c].pc = "done" /\ checks'[c].res # "error") =>
            LET key == checks[c].key
                stored == kvRl[key]
                persisted == IF stored \in {KvAbsent, KvJunk} THEN 0 ELSE stored
                e == rlEntries'[MapGet(rateLimitMemory', key)]
            IN /\ MapGet(rateLimitMemory', key) = c
               /\ e.syncedCount = persisted
               /\ checks'[c].kvCount = persisted
               /\ IF RL_LIMIT > 0 /\ persisted >= RL_LIMIT
                  THEN checks'[c].res = "denied" /\ e.count = persisted
                  ELSE checks'[c].res = "allowed" /\ e.count = persisted + 1 ]_vars

\* the first check of a bucket in this process is denied on the persisted
\* count alone: no request of that window was admitted here
C32_Witness ==
    \E c \in Checks :
        /\ checks[c].pc = "done" /\ checks[c].res = "denied"
        /\ RL_LIMIT > 0 /\ checks[c].kvCount >= RL_LIMIT
        /\ AllowedFor(checks[c].key) = {}
        /\ \A d \in Checks : d < c => checks[d].key # checks[c].key
        /\ rlEntries[MapGet(rateLimitMemory, checks[c].key)].count = kvRl[checks[c].key]

\* ------------------------------------------------- admission before the catalog
\* router.js 36-42 with a limit of one request per window: the second request
\* of the identity in a window is answered 429
InitAdmission == Quiet /\ Init /\ CACHE_TTL_SECONDS = CacheTtlSeconds /\ RL_LIMIT = 1

\* request c is checks[c] followed, once the limiter answered null, by calls[c];
\* the first getIndex call of its handler (service.js 100, 191; router.js 74),
\* which is never forced; requests are handled concurrently, in any order the
\* awaits allow, within one window of the limiter
NextAdmission ==
    \/ \E c \in Calls, ip \in Identities : c = NextCheck /\ enforceRateLimit(c, ip)
    \/ \E c \in Calls : ColdLoadResolves(c)
    \/ \E c \in Calls : ColdLoadRejects(c)
    \/ \E w \in rlWrites : SyncWriteResolves(w)
    \/ \E w \in rlWrites : SyncWriteRejects(w)
    \/ \E c \in Calls : Admitted(c) /\ getIndex(c, FALSE)
    \/ \E c \in Calls : KvGetResolves(c)
    \/ \E c \in Calls : KvGetRejects(c)
    \/ \E r \in rebuilds, emptySheet \in BOOLEAN : BuildResolves(r, emptySheet)
    \/ \E r \in rebuilds : BuildRejects(r)
    \/ \E w \in kvIdxWrites : IndexWriteResolves(w)
    \/ \E w \in kvIdxWrites : IndexWriteRejects(w)

SpecAdmission == InitAdmission /\ [][NextAdmission]_vars

C34_FailedRebuildPropagates ==
    [][ /\ \A r \in rebuilds \ rebuilds' :
              (\A w \in kvIdxWrites' : w.val.id # r) =>
                  /\ \A c \in Calls :
                        IF calls[c].pc = "await" /\ calls[c].awaiting = r
                        THEN calls'[c] = [calls[c] EXCEPT !.pc = "error"]
                        ELSE calls'[c] = calls[c]
                  /\ memoryIndexPromise' = NoPromise
                  /\ memoryIndex' = memoryIndex
                  /\ memoryIndexExpiry' = memoryIndexExpiry
                  /\ fetchCount' = fetchCount
                  /\ rebuilds' = rebuilds \ {r}
        /\ fetchCount' # fetchCount =>
              \E c \in Calls : /\ calls[c].pc \in {"idle", "kvget"}
                               /\ calls'[c].pc = "await"
                               /\ calls'[c].started = fetchCount'
      ]_vars

\* the rebuild call 1 started failed and call 1 got the error; call 2, made
\* later, started the second rebuild, which is in flight
C34_Witness ==
    /\ calls[1].pc = "error" /\ calls[1].started = 1 /\ calls[1].awaiting = 1
    /\ calls[2].pc = "await" /\ calls[2].started = 2
    /\ memoryIndexPromise = 2 /\ rebuilds = {2} /\ fetchCount = 2
    /\ memoryIndex = NoIndex /\ memoryIndexExpiry = 0

\* ------------------------------------------- a store read that resolves late
\* the Catalog an earlier instance of the worker left under 'idx_v1'
EarlierCatalog == [id |-> 0 - 1, maps |-> TRUE]

\* a process that starts with an empty memory over a store that may already
\* hold a Catalog
InitWarmStore ==
    /\ Quiet
    /\ now = 0
    /\ logged = {}
    /\ CACHE_TTL_SECONDS \in {0, CacheTtlSeconds}
    /\ memoryIndex = NoIndex
    /\ memoryIndexExpiry = 0
    /\ memoryIndexPromise = NoPromise
    /\ rebuilds = {}
    /\ fetchCount = 0
    /\ kvIdx \in {NoKvEntry,
                  [val |-> EarlierCatalog, expirationTtl |-> kvTtl(CACHE_TTL_SECONDS)]}
    /\ kvIdxWrites = {}
    /\ calls = [c \in Calls |-> IdleCall]
    /\ InitRateLimiter /\ RL_LIMIT = RlLimit
    /\ InitListCache
    /\ InitRouter
    /\ InitCatalog
    /\ InitList

SpecWarmStore == InitWarmStore /\ [][NextLoader]_vars

\* C35: while the Catalog a rebuild of this process installed is held in
\* memory and is fresh (so that every store read still pending was issued
\* before it was installed), a store read that resolves does not replace it
\* with the Catalog the store held before the process started.
C35_PendingReadKeepsRebuiltCatalog ==
    [][ \A c \in Calls :
           ( /\ calls[c].pc = "kvget" /\ calls'[c].pc = "done"
             /\ memoryIndex.id >= 1 /\ memoryFresh )
           => memoryIndex' # EarlierCatalog
      ]_vars

\* ------------------------------------------ layer 1 and the tracked fingerprint
\* C36: every entry held in the layer-1 list cache has a key built from the
\* fingerprint the cache currently tracks.
C36_Layer1EntriesUnderTrackedFingerprint ==
    \A i \in 1..Len(listMemoryCache) : listMemoryCache[i].key[1] = listMemoryCacheEtag

\* ------------------------------------------------- the store count catching up
\* a run in which every store read and every store write succeeds, started
\* from an empty limiter over a store that may hold a count, or from a held
\* unlimited bucket with requests not yet synced
InitSteady == InitColdLoad \/ InitSync

NextSteady ==
    \/ \E c \in Checks, ip \in Identities : c = NextCheck /\ enforceRateLimit(c, ip)
    \/ \E c \in Checks : ColdLoadResolves(c)
    \/ \E w \in rlWrites : SyncWriteResolves(w)
    \/ Tick

SpecSteady == InitSteady /\ [][NextSteady]_vars

\* C37: for every bucket held in the Map with no sync write in flight under
\* its key, the count exceeds the synced count by less than
\* RATE_LIMIT_SYNC_STEP, and when the limit is positive and the count has
\* reached max(1, limit - 1) the synced count equals the count.
C37_SyncedCountCatchesUp ==
    \A i \in 1..Len(rateLimitMemory) :
        LET key == rateLimitMemory[i].key
            e == rlEntries[rateLimitMemory[i].obj]
        IN (\A w \in rlWrites : w.key # key) =>
              /\ e.count - e.syncedCount < RATE_LIMIT_SYNC_STEP
              /\ (RL_LIMIT > 0 /\ e.count >= Max(1, RL_LIMIT - 1)) =>
                     e.syncedCount = e.count

\* an unlimited bucket whose fifth request started a write of 5, whose later
\* requests asked for a follow-up, and whose follow-up write has landed: the
\* store and the synced count are at the count, above the step
C37_Witness ==
    /\ rlWrites = {}
    /\ \E i \in 1..Len(rateLimitMemory) :
          LET e == rlEntries[rateLimitMemory[i].obj]
          IN /\ e.count > RATE_LIMIT_SYNC_STEP
             /\ e.syncedCount = e.count
             /\ kvRl[rateLimitMemory[i].key] = e.count

\* ------------------------------------------------ synced count and sync values
\* C38: after every step each bucket held in the Map has
\* 0 <= syncedCount <= count, and every sync write issued in the step carries a
\* value no greater than the count then held in the Map for the write's key.
C38_SyncNeverAheadOfCount ==
    [][ /\ \A i \in 1..Len(rateLimitMemory') :
              LET e == rlEntries'[rateLimitMemory'[i].obj]
              IN 0 <= e.syncedCount /\ e.syncedCount <= e.count
        /\ \A w \in rlWrites' \ rlWrites :
              LET id == MapGet(rateLimitMemory', w.key)
              IN id # NoEntry => w.val <= rlEntries'[id].count
      ]_vars

\* ------------------------------------------------- the prefix / n-gram fallback
\* C39: for every substring q of an indexed token that is not itself a key of
\* the exact token index, the candidate list lookupTokenMatches returns for q
\* contains the position of every record listed under an indexed token that
\* starts with q.
C39_FallbackCoversPrefixMatches ==
    hasPrecomputedMaps(catalog) =>
        LET tokens == DOMAIN catalog._tokenIndex
            probes == UNION {{SubSeq(t, i, j) : i \in 1..Len(t), j \in 1..Len(t)} : t \in tokens}
                      \ {<<>>}
            startsWith(t, q) == Len(t) >= Len(q) /\ SubSeq(t, 1, Len(q)) = q
            having(q) == UNION {Range(catalog._tokenIndex[t]) :
                                   t \in {u \in tokens : startsWith(u, q)}}
        IN \A q \in probes \ tokens :
               having(q) \subseteq Range(lookupTokenMatches(catalog, q))

\* over Sour Time and Classic Sour the query ti is no indexed token; time starts
\* with it, and the fallback answers the position of Sour Time alone
C39_Witness ==
    /\ hasPrecomputedMaps(catalog)
    /\ Len(catalog.rows) = 2
    /\ <<"t", "i">> \notin DOMAIN catalog._tokenIndex
    /\ <<"t", "i", "m", "e">> \in DOMAIN catalog._tokenIndex
    /\ <<"c", "l", "a", "s", "s", "i", "c">> \in DOMAIN catalog._tokenIndex
    /\ lookupTokenMatches(catalog, <<"t", "i">>) = catalog._tokenIndex[<<"t", "i", "m", "e">>]
    /\ Len(lookupTokenMatches(catalog, <<"t", "i">>)) = 1

\* ------------------------------------------------------- layer 1 stays bounded
\* C40: with a positive capacity, after any sequence of get, set and
\* syncIndexState calls layer 1 holds at most maxEntries entries and no two of
\* them have the same key.
C40_Layer1BoundedOnePerKey ==
    MaxEntries > 0 =>
        /\ Len(listMemoryCache) <= MaxEntries
        /\ \A i, j \in 1..Len(listMemoryCache) :
               listMemoryCache[i].key = listMemoryCache[j].key => i = j

\* after the clock advanced, a set into the full cache dropped an older entry
\* and left the cache full again, its newest entry being the one just set
C40_Witness ==
    /\ now > 0
    /\ lastOp.op = "set"
    /\ lastOp.removed >= 1
    /\ Len(listMemoryCache) = MaxEntries
    /\ listMemoryCache[MaxEntries].key = lastOp.key
    /\ listMemoryCache[MaxEntries].insertedAt = now
    /\ listMemoryCache[1].key # lastOp.key

====
